---- MODULE Spec2Model ----
(***************************************************************************)
(* Model of the dashboard backend (src/backend/server.py): the token,      *)
(* metadata, links-cache and runtime-config stores, and the HTTP handlers   *)
(* renew_token, get_links, patch_link_meta, delete_link_meta, get_config    *)
(* and patch_config.  Each handler is one action; the upstream proxy        *)
(* manager is a black box whose answer to each request is drawn from a      *)
(* bounded set.                                                             *)
(*                                                                          *)
(* Strings whose content matters (domain names, URLs, tokens, names) are    *)
(* sequences of code points; admin user and password, on which the code     *)
(* only tests emptiness and equality, are TLA+ strings.                     *)
(*                                                                          *)
(* A host object carries its "id" and "domain_names"; forward_host and      *)
(* forward_port are copied into the link the same way and are left out.     *)
(* The members other than "id" have the types of the upstream's schema; the *)
(* store files hold what the handlers wrote.  A handler that lets an        *)
(* exception escape answers 500, kind "InternalError".                      *)
(***************************************************************************)
EXTENDS Integers, Sequences, FiniteSets, TLC

(* ------------------------------ bounds --------------------------------- *)

\* longest host list the upstream answers with
MaxHosts == 2
\* last instant of the wall clock
MaxClock == 1
\* longest host list the view computation is applied to
MaxViewHosts == 3

\* inodes created in the step-by-step model of a save
MaxInodes == 3

(* ------------------------------ strings -------------------------------- *)

SP == 32
SLASH == 47

RECURSIVE LStrip(_)
LStrip(s) == IF s # <<>> /\ Head(s) = SP THEN LStrip(Tail(s)) ELSE s

RECURSIVE RStripCh(_, _)
RStripCh(s, c) ==
    IF s # <<>> /\ s[Len(s)] = c THEN RStripCh(SubSeq(s, 1, Len(s) - 1), c) ELSE s

\* str.strip()
Strip(s) == RStripCh(LStrip(s), SP)

\* str.startswith(p)
StartsWith(s, p) == Len(s) >= Len(p) /\ SubSeq(s, 1, Len(p)) = p

\* Python's < on str: lexicographic on code points
RECURSIVE StrLess(_, _)
StrLess(s, t) ==
    IF t = <<>> THEN FALSE
    ELSE IF s = <<>> THEN TRUE
    ELSE IF Head(s) # Head(t) THEN Head(s) < Head(t)
    ELSE StrLess(Tail(s), Tail(t))

\* "a", "b", "B"
S_a == <<97>>
S_b == <<98>>
S_B == <<66>>

(* ---------------------------- JSON values ------------------------------ *)

JStr(s) == [t |-> "str", v |-> s]
JNull == [t |-> "null", v |-> <<>>]
JAbsent == [t |-> "absent", v |-> <<>>]
JTrue == [t |-> "bool", v |-> <<1>>]
JFalse == [t |-> "bool", v |-> <<0>>]

\* the "id" member of a host object
IdInt(n) == [k |-> "int", n |-> n]
IdStr(n) == [k |-> "str", n |-> n]
IdNone == [k |-> "none", n |-> 0]
IdAbsent == [k |-> "absent", n |-> 0]
IdBad == [k |-> "bad", n |-> 0]

\* the "domain_names" member of a host object
DnList(l) == [k |-> "list", l |-> l]
DnNone == [k |-> "none", l |-> <<>>]

\* an element of the listing: a JSON object, or anything else
Host(id, dn) == [dict |-> TRUE, id |-> id, domain_names |-> dn]
Junk == [dict |-> FALSE, id |-> IdAbsent, domain_names |-> DnNone]

(* ----------------------- requests and responses ------------------------ *)

\* an upstream answer: a transport failure, or a status with a body that is
\* a JSON array (k = "list"), other JSON (k = "json") or not JSON (k = "text")
Body(k, l) == [k |-> k, l |-> l, token |-> JAbsent]
\* a JSON object as the answer of POST /api/tokens, with its "token" member
TokenBody(tok) == [k |-> "obj", l |-> <<>>, token |-> tok]
Resp(status, body) == [net |-> "ok", status |-> status, body |-> body]
NetError == [net |-> "error", status |-> 0, body |-> Body("text", <<>>)]
\* no request was issued
NoResp == [net |-> "none", status |-> 0, body |-> Body("text", <<>>)]

\* HTTP Basic credentials of a request
NoCreds == [given |-> FALSE, username |-> "", password |-> ""]
Basic(u, p) == [given |-> TRUE, username |-> u, password |-> p]

\* elements the upstream listing is built from
HostPool == {Host(IdInt(1), DnList(<<S_a>>)), Junk}

RECURSIVE SeqsUpTo(_, _)
SeqsUpTo(S, n) ==
    IF n = 0 THEN {<<>>}
    ELSE LET shorter == SeqsUpTo(S, n - 1)
         IN  shorter \cup {Append(l, e) : l \in shorter, e \in S}

HostLists == SeqsUpTo(HostPool, MaxHosts)

\* answers of GET /api/nginx/proxy-hosts
ListingResponses ==
    {NetError, Resp(401, Body("text", <<>>)), Resp(500, Body("text", <<>>)),
     Resp(200, Body("json", <<>>)), Resp(200, Body("text", <<>>))}
    \cup {Resp(200, Body("list", l)) : l \in HostLists}

\* answers to the validation probe; validate_token reads the status only
ProbeResponses ==
    {NetError, Resp(401, Body("text", <<>>)), Resp(200, Body("list", <<>>))}

CredsChoices ==
    {NoCreds, Basic("admin", "pw"), Basic("admin", "bad"), Basic("", "")}

(* ------------------------------- state --------------------------------- *)

VARIABLES
    ADMIN_USER,          \* environment, fixed for the life of the process
    ADMIN_PASS,
    tokenFile,           \* TOKEN_FILE
    metaFile,            \* META_FILE
    linksCacheFile,      \* LINKS_CACHE_FILE
    configFile,          \* CONFIG_FILE
    runtime_base_url,    \* _runtime_base_url
    now,                 \* wall clock
    last,                \* the last request handled and its response
    pure                 \* inputs and results of the view computation alone

vars == <<ADMIN_USER, ADMIN_PASS, tokenFile, metaFile, linksCacheFile,
          configFile, runtime_base_url, now, last, pure>>
stores == <<tokenFile, metaFile, linksCacheFile, configFile, runtime_base_url>>

NoToken == [exists |-> FALSE, token |-> <<>>]
NoCache == [exists |-> FALSE, fetched_at |-> 0, hosts |-> <<>>]
EmptyMeta == [k \in {} |-> 0]
NoMeta == [exists |-> FALSE, entries |-> EmptyMeta]
NoConfig == [exists |-> FALSE, npm_base_url |-> <<>>]

\* "http://d"
DEFAULT_BASE_URL == <<104, 116, 116, 112, 58, 47, 47, 100>>

EmptyEntry == [name |-> JAbsent, description |-> JAbsent, emoji |-> JAbsent,
               hidden |-> JAbsent]

NoCall ==
    [op |-> "none", status |-> 0, kind |-> "none",
     include_hidden |-> FALSE, creds |-> NoCreds,
     probe |-> NoResp, fetch |-> NoResp,
     links |-> <<>>, source |-> "none", fetched_at |-> -1,
     nreq |-> 0, reads |-> {},
     link_id |-> 0, patch |-> EmptyEntry, url |-> <<>>, url_in |-> <<>>,
     token |-> <<>>]

NoView == [hosts |-> <<>>, hosts2 |-> <<>>, meta |-> EmptyMeta,
           include_hidden |-> FALSE, done |-> FALSE, out |-> <<>>, out2 |-> <<>>]

(* ---------------------------- admin check ------------------------------ *)

\* _admin_configured_or_503 passes
admin_configured == ADMIN_USER # "" /\ ADMIN_PASS # ""

\* variant: the configuration test is left out
is_admin_unconfigured(creds) ==
    /\ creds.given
    /\ creds.username = ADMIN_USER
    /\ creds.password = ADMIN_PASS

is_admin(creds) ==
    /\ creds.given
    /\ ADMIN_USER # "" /\ ADMIN_PASS # ""
    /\ creds.username = ADMIN_USER
    /\ creds.password = ADMIN_PASS

(* ------------------------------- stores -------------------------------- *)

\* load_token: the stripped token, or none when missing or blank
load_token ==
    IF tokenFile.exists /\ Strip(tokenFile.token) # <<>>
    THEN [some |-> TRUE, token |-> Strip(tokenFile.token)]
    ELSE [some |-> FALSE, token |-> <<>>]

save_token(token) == [exists |-> TRUE, token |-> token]

RECURSIVE dicts(_)
\* [h for h in data if isinstance(h, dict)]
dicts(l) ==
    IF l = <<>> THEN <<>>
    ELSE IF Head(l).dict THEN <<Head(l)>> \o dicts(Tail(l))
    ELSE dicts(Tail(l))

\* variant: the time of the request is reported instead of the stored one
load_links_cache_now ==
    IF linksCacheFile.exists
    THEN [some |-> TRUE, hosts |-> dicts(linksCacheFile.hosts), fetched_at |-> now]
    ELSE [some |-> FALSE, hosts |-> <<>>, fetched_at |-> -1]

\* variant: a missing cache file reads as an empty snapshot
load_links_cache_empty ==
    [some |-> TRUE,
     hosts |-> IF linksCacheFile.exists THEN dicts(linksCacheFile.hosts) ELSE <<>>,
     fetched_at |-> IF linksCacheFile.exists THEN linksCacheFile.fetched_at ELSE -1]

\* load_links_cache: (hosts, fetched_at), hosts none when there is no file
load_links_cache ==
    IF linksCacheFile.exists
    THEN [some |-> TRUE, hosts |-> dicts(linksCacheFile.hosts),
          fetched_at |-> linksCacheFile.fetched_at]
    ELSE [some |-> FALSE, hosts |-> <<>>, fetched_at |-> -1]

\* variant: an existing snapshot keeps its timestamp
save_links_cache_old_stamp(hosts) ==
    [exists |-> TRUE,
     fetched_at |-> IF linksCacheFile.exists THEN linksCacheFile.fetched_at ELSE now,
     hosts |-> hosts]

save_links_cache(hosts) == [exists |-> TRUE, fetched_at |-> now, hosts |-> hosts]

\* variant: a snapshot already stored is not replaced
cache_first_writer_wins(live, hosts) ==
    IF live /\ ~linksCacheFile.exists THEN save_links_cache(hosts)
    ELSE linksCacheFile

\* variant: the cache is written on the fallback path too
cache_always_saved(live, hosts) == save_links_cache(hosts)

\* variant: a failed live attempt drops the snapshot
cache_dropped_on_failure(live, hosts) ==
    IF live THEN save_links_cache(hosts) ELSE NoCache

\* the cache file after the live attempt: written on a fetched list only
cache_after_fetch(live, hosts) ==
    IF live THEN save_links_cache(hosts) ELSE linksCacheFile

\* load_meta: the stored entries, {} when there is no file
load_meta == IF metaFile.exists THEN metaFile.entries ELSE EmptyMeta

save_meta(meta) == [exists |-> TRUE, entries |-> meta]

(* ------------------------- merge, filter, sort -------------------------- *)

\* variant: a host without an id gets a default id
CanInt_default_id(id) == id.k \in {"int", "str", "absent"}

\* int(h.get("id")) succeeds
CanInt(id) == id.k \in {"int", "str"}
IntOf(id) == id.n

\* variant: the lookup misses the stored key
meta_get_missed(meta, hid) == EmptyEntry

\* meta.get(str(hid), {})
meta_get(meta, hid) == IF hid \in DOMAIN meta THEN meta[hid] ELSE EmptyEntry

\* m.get(field): None when the key is missing
field_get(v) == IF v = JAbsent THEN JNull ELSE v

\* variant: any stored flag counts as hidden
hidden_val_any(m) == m.hidden # JAbsent

\* bool(m.get("hidden", False))
hidden_val(m) == m.hidden = JTrue

LinkOut(h, m) ==
    [id |-> IntOf(h.id),
     domain_names |-> IF h.domain_names.k = "list" THEN h.domain_names.l ELSE <<>>,
     name |-> field_get(m.name),
     description |-> field_get(m.description),
     emoji |-> field_get(m.emoji),
     hidden |-> hidden_val(m)]

RECURSIVE merge_hosts_with_meta(_, _)
merge_hosts_with_meta(hosts, meta) ==
    IF hosts = <<>> THEN <<>>
    ELSE LET h == Head(hosts)
             rest == merge_hosts_with_meta(Tail(hosts), meta)
         IN  IF CanInt(h.id)
             THEN <<LinkOut(h, meta_get(meta, IntOf(h.id)))>> \o rest
             ELSE rest

RECURSIVE not_hidden(_)
\* [x for x in merged if not x.hidden]
not_hidden(merged) ==
    IF merged = <<>> THEN <<>>
    ELSE IF Head(merged).hidden THEN not_hidden(Tail(merged))
    ELSE <<Head(merged)>> \o not_hidden(Tail(merged))

\* str.lower() on ASCII
Lower(s) == [i \in DOMAIN s |-> IF s[i] >= 65 /\ s[i] <= 90 THEN s[i] + 32 ELSE s[i]]

\* variant: the key is folded to lower case
sort_key_lower(x) ==
    IF x.domain_names # <<>> THEN Lower(x.domain_names[1]) ELSE <<>>

\* the sort key: x.domain_names[0] if x.domain_names else ""
sort_key(x) == IF x.domain_names # <<>> THEN x.domain_names[1] ELSE <<>>

RECURSIVE insert_sorted(_, _)
\* x goes behind every element whose key is not greater than its own
insert_sorted(x, l) ==
    IF l = <<>> THEN <<x>>
    ELSE IF StrLess(sort_key(x), sort_key(Head(l))) THEN <<x>> \o l
    ELSE <<Head(l)>> \o insert_sorted(x, Tail(l))

RECURSIVE sort_from(_, _)
sort_from(done, rest) ==
    IF rest = <<>> THEN done
    ELSE sort_from(insert_sorted(Head(rest), done), Tail(rest))

\* merged.sort(key=...): list.sort is stable
sort_links(merged) == sort_from(<<>>, merged)

\* variant: a stored entry whose id no host has gives a link of its own
build_view_with_orphans(hosts, meta, include_hidden) ==
    LET merged == merge_hosts_with_meta(hosts, meta)
        orphans == {k \in DOMAIN meta :
                       \A i \in DOMAIN merged : merged[i].id # k}
        all == IF orphans = {} THEN merged
               ELSE LET k == CHOOSE k \in orphans : TRUE
                    IN  merged \o <<LinkOut(Host(IdInt(k), DnNone), meta[k])>>
    IN  sort_links(IF include_hidden THEN all ELSE not_hidden(all))

\* lines 508-514 of get_links
build_view(hosts, meta, include_hidden) ==
    LET merged == merge_hosts_with_meta(hosts, meta)
    IN  sort_links(IF include_hidden THEN merged ELSE not_hidden(merged))

(* ------------------------------ upstream -------------------------------- *)

\* httpx Response.is_error: a 4xx or 5xx status
is_error(r) == r.status >= 400

\* variant: every probe counts as valid
validate_token_always(probe) == TRUE

\* validate_token: false on 401 and on a transport error
validate_token(probe) == probe.net = "ok" /\ probe.status # 401

(* ------------------------------ GET /links ------------------------------ *)

get_links(include_hidden, creds, probe, fetch) ==
    LET token == load_token
        token_ok == token.some /\ validate_token(probe)
        \* r.json() raises on a body that is not JSON: no handler catches it
        raised == /\ token_ok /\ fetch.net = "ok" /\ fetch.status # 401
                  /\ ~is_error(fetch) /\ fetch.body.k = "text"
        live == /\ token_ok /\ fetch.net = "ok" /\ fetch.status # 401
                /\ ~is_error(fetch) /\ fetch.body.k = "list"
        cached == load_links_cache
        hosts == IF live THEN dicts(fetch.body.l) ELSE cached.hosts
        call == [NoCall EXCEPT !.op = "get_links",
                               !.include_hidden = include_hidden,
                               !.creds = creds]
    IN
    IF include_hidden /\ ~is_admin(creds)
    THEN /\ probe = NoResp /\ fetch = NoResp
         /\ last' = IF admin_configured
                    THEN [call EXCEPT !.status = 401, !.kind = "Forbidden"]
                    ELSE [call EXCEPT !.status = 503, !.kind = "NotConfigured"]
         /\ UNCHANGED <<stores, now, ADMIN_USER, ADMIN_PASS, pure>>
    ELSE /\ (probe # NoResp) = token.some
         /\ (fetch # NoResp) = token_ok
         /\ LET seen == [call EXCEPT !.probe = probe, !.fetch = fetch,
                                     !.nreq = IF token_ok THEN 2
                                              ELSE IF token.some THEN 1 ELSE 0]
            IN
            IF raised
            THEN /\ last' = [seen EXCEPT !.status = 500, !.kind = "InternalError",
                                         !.reads = {"token"}]
                 /\ UNCHANGED <<stores, now, ADMIN_USER, ADMIN_PASS, pure>>
            ELSE IF ~live /\ ~cached.some
            THEN /\ last' = [seen EXCEPT !.status = 401, !.kind = "NoDataAvailable",
                                         !.reads = {"token", "cache"}]
                 /\ UNCHANGED <<stores, now, ADMIN_USER, ADMIN_PASS, pure>>
            ELSE /\ linksCacheFile' = cache_after_fetch(live, hosts)
                 /\ last' = [seen EXCEPT
                        !.status = 200, !.kind = "ok",
                        !.links = build_view(hosts, load_meta, include_hidden),
                        !.source = IF live THEN "live" ELSE "cache",
                        !.fetched_at = IF live THEN -1 ELSE cached.fetched_at,
                        !.reads = IF live THEN {"token", "meta"}
                                  ELSE {"token", "cache", "meta"}]
                 /\ UNCHANGED <<tokenFile, metaFile, configFile, runtime_base_url,
                                now, ADMIN_USER, ADMIN_PASS, pure>>

GetLinks ==
    \E include_hidden \in BOOLEAN :
    \E creds \in (IF include_hidden THEN CredsChoices
                  ELSE {NoCreds, Basic("admin", "pw")}) :
        \E probe \in ProbeResponses \cup {NoResp} :
            \E fetch \in (IF probe # NoResp /\ validate_token(probe)
                          THEN ListingResponses ELSE {NoResp}) :
                get_links(include_hidden, creds, probe, fetch)

(* ------------------------------- clock --------------------------------- *)

Tick ==
    /\ now < MaxClock
    /\ now' = now + 1
    /\ UNCHANGED <<stores, last, ADMIN_USER, ADMIN_PASS, pure>>

(* ------------------------ POST /auth/token/renew ------------------------ *)

\* "t" and " t "
S_t == <<116>>
S_t_padded == <<32, 116, 32>>

RenewResponses ==
    {NetError, Resp(401, Body("text", <<>>)), Resp(200, Body("text", <<>>)),
     Resp(200, Body("list", <<>>)),
     Resp(200, TokenBody(JAbsent)), Resp(200, TokenBody(JStr(<<SP>>))),
     Resp(200, TokenBody(JStr(S_t))), Resp(200, TokenBody(JStr(S_t_padded)))}

\* variant: a token is saved without the test for a blank string
renew_token_saves_blank(r) ==
    LET call == [NoCall EXCEPT !.op = "renew_token", !.fetch = r, !.nreq = 1]
        tok == r.body.token
    IN
    IF r.net = "error" \/ (r.status = 200 /\ r.body.k # "obj")
    THEN /\ last' = [call EXCEPT !.status = 500, !.kind = "InternalError"]
         /\ UNCHANGED <<stores, now, ADMIN_USER, ADMIN_PASS, pure>>
    ELSE IF r.status # 200
    THEN /\ last' = [call EXCEPT !.status = 401, !.kind = "AuthFailure"]
         /\ UNCHANGED <<stores, now, ADMIN_USER, ADMIN_PASS, pure>>
    ELSE IF tok.t # "str"
    THEN /\ last' = [call EXCEPT !.status = 502, !.kind = "BadGateway"]
         /\ UNCHANGED <<stores, now, ADMIN_USER, ADMIN_PASS, pure>>
    ELSE /\ tokenFile' = save_token(Strip(tok.v))
         /\ last' = [call EXCEPT !.status = 200, !.kind = "ok",
                                 !.token = Strip(tok.v)]
         /\ UNCHANGED <<metaFile, linksCacheFile, configFile, runtime_base_url,
                        now, ADMIN_USER, ADMIN_PASS, pure>>

renew_token(r) ==
    LET call == [NoCall EXCEPT !.op = "renew_token", !.fetch = r, !.nreq = 1]
        tok == r.body.token
    IN
    IF r.net = "error" \/ (r.status = 200 /\ r.body.k # "obj")
    THEN \* the transport error, r.json() or data.get() raises
         /\ last' = [call EXCEPT !.status = 500, !.kind = "InternalError"]
         /\ UNCHANGED <<stores, now, ADMIN_USER, ADMIN_PASS, pure>>
    ELSE IF r.status # 200
    THEN /\ last' = [call EXCEPT !.status = 401, !.kind = "AuthFailure"]
         /\ UNCHANGED <<stores, now, ADMIN_USER, ADMIN_PASS, pure>>
    ELSE IF tok.t # "str" \/ Strip(tok.v) = <<>>
    THEN /\ last' = [call EXCEPT !.status = 502, !.kind = "BadGateway"]
         /\ UNCHANGED <<stores, now, ADMIN_USER, ADMIN_PASS, pure>>
    ELSE /\ tokenFile' = save_token(Strip(tok.v))
         /\ last' = [call EXCEPT !.status = 200, !.kind = "ok",
                                 !.token = Strip(tok.v)]
         /\ UNCHANGED <<metaFile, linksCacheFile, configFile, runtime_base_url,
                        now, ADMIN_USER, ADMIN_PASS, pure>>

RenewToken == \E r \in RenewResponses : renew_token(r)

(* ------------------------------ admin routes ---------------------------- *)

\* variant: _admin_configured_or_503 is not called
require_admin_no_503(creds) ==
    IF ~creds.given THEN "NotAuthenticated"
    ELSE IF ~(creds.username = ADMIN_USER /\ creds.password = ADMIN_PASS)
    THEN "BadCredentials"
    ELSE "ok"

\* variant: the credentials sent are not compared with the configured ones
require_admin_any_creds(creds) ==
    IF ~creds.given THEN "NotAuthenticated"
    ELSE IF ~admin_configured THEN "NotConfigured"
    ELSE "ok"

\* Depends(security) followed by require_admin: the error kind, or "ok"
require_admin(creds) ==
    IF ~creds.given THEN "NotAuthenticated"
    ELSE IF ~admin_configured THEN "NotConfigured"
    ELSE IF ~(creds.username = ADMIN_USER /\ creds.password = ADMIN_PASS)
    THEN "BadCredentials"
    ELSE "ok"

admin_status(kind) == IF kind = "NotConfigured" THEN 503 ELSE 401

\* the response of an admin route whose dependency raised
admin_rejected(call, creds) ==
    /\ require_admin(creds) # "ok"
    /\ last' = [call EXCEPT !.status = admin_status(require_admin(creds)),
                            !.kind = require_admin(creds)]
    /\ UNCHANGED <<stores, now, ADMIN_USER, ADMIN_PASS, pure>>

(* --------------------------- PATCH /links/{id} -------------------------- *)

\* "X" and " "
S_X == <<88>>

\* request bodies: a member left out is JAbsent
PatchChoices ==
    { [EmptyEntry EXCEPT !.name = JStr(S_X)],
      [EmptyEntry EXCEPT !.hidden = JTrue] }

LinkIdChoices == {1, 3}

\* int(h.get("id", -1)) raises
id_raises(h) == h.id.k \in {"none", "bad"}
\* int(h.get("id", -1))
id_or_minus1(h) == IF h.id.k = "absent" THEN -1 ELSE h.id.n

RECURSIVE any_id(_, _)
\* any(int(h.get("id", -1)) == link_id for h in hosts if isinstance(h, dict)):
\* "yes", "no", or "raise" when an id met before a match does not convert
any_id(hosts, link_id) ==
    IF hosts = <<>> THEN "no"
    ELSE LET h == Head(hosts)
         IN  IF ~h.dict THEN any_id(Tail(hosts), link_id)
             ELSE IF id_raises(h) THEN "raise"
             ELSE IF id_or_minus1(h) = link_id THEN "yes"
             ELSE any_id(Tail(hosts), link_id)

\* variant: the host is taken from the stored snapshot
next_host_cached(hosts, link_id) ==
    LET cached == load_links_cache.hosts
        at == {i \in DOMAIN cached : cached[i].id = IdInt(link_id)}
    IN  IF at = {} THEN [raised |-> TRUE, host |-> Junk]
        ELSE [raised |-> FALSE, host |-> cached[CHOOSE i \in at : TRUE]]

RECURSIVE next_host(_, _)
\* next(h for h in hosts if int(h.get("id", -1)) == link_id): the host, or a
\* raise on an element met before it that has no get() or no convertible id
next_host(hosts, link_id) ==
    IF hosts = <<>> THEN [raised |-> TRUE, host |-> Junk]
    ELSE LET h == Head(hosts)
         IN  IF ~h.dict \/ id_raises(h) THEN [raised |-> TRUE, host |-> Junk]
             ELSE IF id_or_minus1(h) = link_id THEN [raised |-> FALSE, host |-> h]
             ELSE next_host(Tail(hosts), link_id)

\* variant: a blank string is stored as given
blank_kept(v) == v

\* a blank name, description or emoji becomes None
blank_to_none(v) == IF v.t = "str" /\ Strip(v.v) = <<>> THEN JNull ELSE v

\* current.update(update) over the members the request set
apply_patch(current, patch) ==
    [name |-> IF patch.name = JAbsent THEN current.name
              ELSE blank_to_none(patch.name),
     description |-> IF patch.description = JAbsent THEN current.description
                     ELSE blank_to_none(patch.description),
     emoji |-> IF patch.emoji = JAbsent THEN current.emoji
               ELSE blank_to_none(patch.emoji),
     hidden |-> IF patch.hidden = JAbsent THEN current.hidden ELSE patch.hidden]

\* variant: the saved document holds the patched entry alone
meta_put_alone(meta, key, entry) == [k \in {key} |-> entry]

\* meta[key] = current
meta_put(meta, key, entry) ==
    [k \in DOMAIN meta \cup {key} |-> IF k = key THEN entry ELSE meta[k]]

\* variant: the entry stays
meta_pop_kept(meta, key) == meta

\* meta.pop(key, None)
meta_pop(meta, key) == [k \in DOMAIN meta \ {key} |-> meta[k]]

patch_link_meta(link_id, patch, creds, probe, fetch) ==
    LET call == [NoCall EXCEPT !.op = "patch_link_meta", !.creds = creds,
                               !.link_id = link_id, !.patch = patch]
        token == load_token
        token_ok == token.some /\ validate_token(probe)
        seen == [call EXCEPT !.probe = probe, !.fetch = fetch,
                             !.nreq = IF token_ok THEN 2
                                      ELSE IF token.some THEN 1 ELSE 0]
        hosts == fetch.body.l
        found == IF fetch.body.k = "list" THEN any_id(hosts, link_id) ELSE "no"
        meta == load_meta
        saved == meta_put(meta, link_id, apply_patch(meta_get(meta, link_id), patch))
        nx == next_host(hosts, link_id)
        out == merge_hosts_with_meta(<<nx.host>>, saved)
    IN
    IF require_admin(creds) # "ok"
    THEN /\ probe = NoResp /\ fetch = NoResp
         /\ admin_rejected(call, creds)
    ELSE /\ (probe # NoResp) = token.some
         /\ (fetch # NoResp) = token_ok
         /\ IF ~token_ok \/ (fetch.net = "ok" /\ fetch.status = 401)
            THEN /\ last' = [seen EXCEPT !.status = 401, !.kind = "TokenInvalid",
                                         !.reads = {"token"}]
                 /\ UNCHANGED <<stores, now, ADMIN_USER, ADMIN_PASS, pure>>
            ELSE IF \/ fetch.net = "error" \/ is_error(fetch)
                    \/ fetch.body.k = "text" \/ found = "raise"
            THEN \* the transport error, raise_for_status(), r.json() or int()
                 /\ last' = [seen EXCEPT !.status = 500, !.kind = "InternalError",
                                         !.reads = {"token"}]
                 /\ UNCHANGED <<stores, now, ADMIN_USER, ADMIN_PASS, pure>>
            ELSE IF found = "no"
            THEN /\ last' = [seen EXCEPT !.status = 404, !.kind = "NotFound",
                                         !.reads = {"token"}]
                 /\ UNCHANGED <<stores, now, ADMIN_USER, ADMIN_PASS, pure>>
            ELSE /\ metaFile' = save_meta(saved)
                 /\ last' = IF nx.raised \/ out = <<>>
                            THEN \* next() or [0] raises after save_meta
                                 [seen EXCEPT !.status = 500,
                                              !.kind = "InternalError",
                                              !.reads = {"token", "meta"}]
                            ELSE [seen EXCEPT !.status = 200, !.kind = "ok",
                                              !.links = <<out[1]>>,
                                              !.reads = {"token", "meta"}]
                 /\ UNCHANGED <<tokenFile, linksCacheFile, configFile,
                                runtime_base_url, now, ADMIN_USER, ADMIN_PASS, pure>>

PatchLinkMeta ==
    \E creds \in CredsChoices :
        \E link_id \in (IF require_admin(creds) = "ok" THEN LinkIdChoices ELSE {0}),
           patch \in (IF require_admin(creds) = "ok" THEN PatchChoices
                      ELSE {EmptyEntry}) :
            \E probe \in (IF require_admin(creds) = "ok" /\ load_token.some
                          THEN ProbeResponses ELSE {NoResp}) :
                \E fetch \in (IF probe # NoResp /\ validate_token(probe)
                              THEN ListingResponses ELSE {NoResp}) :
                    patch_link_meta(link_id, patch, creds, probe, fetch)

(* -------------------------- DELETE /links/{id} -------------------------- *)

delete_link_meta(link_id, creds) ==
    LET call == [NoCall EXCEPT !.op = "delete_link_meta", !.creds = creds,
                               !.link_id = link_id]
    IN
    IF require_admin(creds) # "ok"
    THEN admin_rejected(call, creds)
    ELSE /\ metaFile' = save_meta(meta_pop(load_meta, link_id))
         /\ last' = [call EXCEPT !.status = 204, !.kind = "ok", !.reads = {"meta"}]
         /\ UNCHANGED <<tokenFile, linksCacheFile, configFile, runtime_base_url,
                        now, ADMIN_USER, ADMIN_PASS, pure>>

DeleteLinkMeta ==
    \E creds \in CredsChoices, link_id \in LinkIdChoices :
        delete_link_meta(link_id, creds)

(* ------------------------------- /config -------------------------------- *)

\* "http://" and "https://"
S_http == <<104, 116, 116, 112, 58, 47, 47>>
S_https == <<104, 116, 116, 112, 115, 58, 47, 47>>

\* (url or "").strip().rstrip("/")
url_trim(url) == RStripCh(Strip(url), SLASH)

\* variant: the scheme is not tested
url_valid_any_scheme(url) == url_trim(url) # <<>>

\* _validate_base_url returns instead of raising ValueError
url_valid(url) ==
    /\ url_trim(url) # <<>>
    /\ StartsWith(url_trim(url), S_http) \/ StartsWith(url_trim(url), S_https)

\* _validate_base_url, where it returns
validate_base_url(url) == url_trim(url)

\* "", " http://a/ ", "ftp://a"
UrlChoices ==
    { <<>>, <<SP>> \o S_http \o <<97, SLASH, SP>>,
      <<102, 116, 112, 58, 47, 47, 97>> }

save_runtime_config(url) == [exists |-> TRUE, npm_base_url |-> url]

get_config(creds) ==
    LET call == [NoCall EXCEPT !.op = "get_config", !.creds = creds]
    IN
    IF require_admin(creds) # "ok"
    THEN admin_rejected(call, creds)
    ELSE /\ last' = [call EXCEPT !.status = 200, !.kind = "ok",
                                 !.url = runtime_base_url]
         /\ UNCHANGED <<stores, now, ADMIN_USER, ADMIN_PASS, pure>>

GetConfig == \E creds \in CredsChoices : get_config(creds)

patch_config(url, creds) ==
    LET call == [NoCall EXCEPT !.op = "patch_config", !.creds = creds]
    IN
    IF require_admin(creds) # "ok"
    THEN admin_rejected(call, creds)
    ELSE IF ~url_valid(url)
    THEN /\ last' = [call EXCEPT !.status = 422, !.kind = "Unprocessable",
                                 !.url = url, !.url_in = url]
         /\ UNCHANGED <<stores, now, ADMIN_USER, ADMIN_PASS, pure>>
    ELSE /\ runtime_base_url' = validate_base_url(url)
         /\ configFile' = save_runtime_config(validate_base_url(url))
         /\ last' = [call EXCEPT !.status = 200, !.kind = "ok",
                                 !.url = validate_base_url(url), !.url_in = url]
         /\ UNCHANGED <<tokenFile, metaFile, linksCacheFile, now,
                        ADMIN_USER, ADMIN_PASS, pure>>

PatchConfig ==
    \E creds \in CredsChoices :
        \E url \in (IF require_admin(creds) = "ok" THEN UrlChoices ELSE {<<>>}) :
            patch_config(url, creds)

\* load_runtime_config: the stored URL where it validates, else the default
load_runtime_config ==
    IF configFile.exists /\ url_valid(configFile.npm_base_url)
    THEN validate_base_url(configFile.npm_base_url)
    ELSE DEFAULT_BASE_URL

(* --------------------------- the specification -------------------------- *)

Init ==
    /\ ADMIN_USER \in {"", "admin"}
    /\ ADMIN_PASS \in {"", "pw"}
    /\ tokenFile = NoToken
    /\ metaFile = NoMeta
    /\ linksCacheFile = NoCache
    /\ configFile = NoConfig
    /\ runtime_base_url = load_runtime_config
    /\ now = 0
    /\ last = NoCall
    /\ pure = NoView

Next ==
    \/ Tick
    \/ RenewToken
    \/ GetLinks
    \/ PatchLinkMeta
    \/ DeleteLinkMeta
    \/ GetConfig
    \/ PatchConfig

Spec == Init /\ [][Next]_vars

(* ----------------------- the view computation alone --------------------- *)

\* hosts with a shared first domain name, with no domain names, with an
\* upper-case name, with a numeric string id, with an id that is no number,
\* with an id of null and with no id
ViewPool ==
    { Host(IdInt(1), DnList(<<S_b>>)),
      Host(IdInt(2), DnList(<<S_a, S_b>>)),
      Host(IdInt(3), DnList(<<S_a>>)),
      Host(IdInt(4), DnList(<<>>)),
      Host(IdStr(5), DnNone),
      Host(IdInt(6), DnList(<<S_B>>)),
      Host(IdBad, DnList(<<S_B>>)),
      Host(IdNone, DnList(<<S_a>>)),
      Host(IdAbsent, DnList(<<S_a>>)),
      Junk }

ViewHostLists == SeqsUpTo(ViewPool, MaxViewHosts)

Hidden(v) == [EmptyEntry EXCEPT !.hidden = v]

\* metadata stores: none, hidden and shown ids, a flag of null, a name
\* alone, and an entry for an id no host has
ViewMetas ==
    { EmptyMeta,
      1 :> Hidden(JTrue),
      (1 :> Hidden(JTrue)) @@ (2 :> Hidden(JFalse)),
      (3 :> Hidden(JTrue)) @@ (4 :> Hidden(JNull)),
      (2 :> [EmptyEntry EXCEPT !.name = JStr(S_X)]) @@ (5 :> Hidden(JTrue)),
      9 :> Hidden(JTrue) }

\* the orders of a list
Perms(l) ==
    {[i \in 1..Len(l) |-> l[p[i]]] : p \in Permutations(1..Len(l))}

\* lines 490 and 508-514 of get_links on the drawn inputs
ApplyView ==
    /\ ~pure.done
    /\ pure' = [pure EXCEPT
           !.done = TRUE,
           !.out = build_view(dicts(pure.hosts), pure.meta, pure.include_hidden),
           !.out2 = build_view(dicts(pure.hosts2), pure.meta, pure.include_hidden)]
    /\ UNCHANGED <<stores, now, last, ADMIN_USER, ADMIN_PASS>>

InitStores ==
    /\ ADMIN_USER = "admin"
    /\ ADMIN_PASS = "pw"
    /\ tokenFile = NoToken
    /\ metaFile = NoMeta
    /\ linksCacheFile = NoCache
    /\ configFile = NoConfig
    /\ runtime_base_url = DEFAULT_BASE_URL
    /\ now = 0
    /\ last = NoCall

\* one host list, its metadata and the flag
InitView ==
    /\ InitStores
    /\ pure \in {[NoView EXCEPT !.hosts = l, !.hosts2 = l, !.meta = m,
                                !.include_hidden = b] :
                  l \in ViewHostLists, m \in ViewMetas, b \in BOOLEAN}

\* a host list and one of its orders
InitPerm ==
    /\ InitStores
    /\ \E l \in ViewHostLists, m \in ViewMetas, b \in BOOLEAN :
           pure \in {[NoView EXCEPT !.hosts = l, !.hosts2 = l2, !.meta = m,
                                    !.include_hidden = b] : l2 \in Perms(l)}

NextView == ApplyView

SpecView == InitView /\ [][NextView]_vars

SpecPerm == InitPerm /\ [][NextView]_vars

(* ------------------- the metadata routes, richer listings --------------- *)

\* listing elements for PATCH /links/{id}: a host with an integer id, one
\* without an "id" member, one whose id is no number, and a non-object
PatchPool ==
    { Host(IdInt(1), DnList(<<S_a>>)),
      Host(IdAbsent, DnList(<<S_b>>)),
      Host(IdBad, DnNone),
      Junk }

PatchLists == SeqsUpTo(PatchPool, MaxHosts)

\* link_id is any int the path carries; -1 is the default of h.get("id", -1)
PatchLinkIds == {-1, 1}

\* the admin's PATCH with a stored token that validates and a listing answered
PatchListed ==
    \E link_id \in PatchLinkIds, patch \in PatchChoices, l \in PatchLists :
        patch_link_meta(link_id, patch, Basic(ADMIN_USER, ADMIN_PASS),
                        Resp(200, Body("list", <<>>)), Resp(200, Body("list", l)))

\* the admin's DELETE
ResetListed ==
    \E link_id \in PatchLinkIds :
        delete_link_meta(link_id, Basic(ADMIN_USER, ADMIN_PASS))

\* admin configured, a token stored, no metadata yet
InitPatch ==
    /\ ADMIN_USER = "admin"
    /\ ADMIN_PASS = "pw"
    /\ tokenFile = save_token(S_t)
    /\ metaFile = NoMeta
    /\ linksCacheFile = NoCache
    /\ configFile = NoConfig
    /\ runtime_base_url = DEFAULT_BASE_URL
    /\ now = 0
    /\ last = NoCall
    /\ pure = NoView

NextPatch == PatchListed \/ ResetListed

SpecPatch == InitPatch /\ [][NextPatch]_vars

(* ------------------- the metadata routes, richer bodies ----------------- *)

\* "" and " "
S_empty == <<>>
S_blank == <<SP>>

\* request bodies: each member left out, blank, or set
PatchBodies ==
    [name : {JAbsent, JStr(S_empty), JStr(S_blank), JStr(S_X)},
     description : {JAbsent, JStr(S_blank), JStr(S_X)},
     emoji : {JAbsent, JStr(S_empty), JStr(S_X)},
     hidden : {JAbsent, JTrue, JFalse}]

\* the admin's PATCH of link 1 with a stored token that validates and a
\* listing that holds host 1
PatchFields ==
    \E patch \in PatchBodies :
        patch_link_meta(1, patch, Basic(ADMIN_USER, ADMIN_PASS),
                        Resp(200, Body("list", <<>>)),
                        Resp(200, Body("list", <<Host(IdInt(1), DnList(<<S_a>>))>>)))

\* the admin's DELETE of link 1
ResetFields == delete_link_meta(1, Basic(ADMIN_USER, ADMIN_PASS))

NextFields == PatchFields \/ ResetFields

SpecFields == InitPatch /\ [][NextFields]_vars

(* --------------------- the config routes, richer values ----------------- *)

\* "http://a", "https://b", "ftp://a"
S_url_a == S_http \o <<97>>
S_url_b == S_https \o <<98>>
S_ftp_a == <<102, 116, 112, 58, 47, 47, 97>>

\* values of npm_base_url: empty, blank, a scheme alone, another scheme,
\* plain, padded, with slashes at the end, and with a space before the
\* last slash
UrlPool ==
    { <<>>, <<SP>>, S_http, S_ftp_a,
      S_url_a, <<SP>> \o S_url_a \o <<SLASH, SP>>,
      S_url_b \o <<SLASH, SLASH>>,
      S_url_a \o <<SP, SLASH>> }

PatchConfigPool ==
    \E creds \in CredsChoices :
        \E url \in (IF require_admin(creds) = "ok" THEN UrlPool ELSE {<<>>}) :
            patch_config(url, creds)

\* the process starts again: the module is imported and line 170 runs
Restart ==
    /\ runtime_base_url' = load_runtime_config
    /\ last' = [NoCall EXCEPT !.op = "load_runtime_config",
                              !.url = load_runtime_config]
    /\ UNCHANGED <<tokenFile, metaFile, linksCacheFile, configFile, now,
                   ADMIN_USER, ADMIN_PASS, pure>>

NextConfig == PatchConfigPool \/ GetConfig \/ Restart \/ Tick

\* admin configured, no file stored, the default base URL in force
InitConfig == InitStores /\ pure = NoView

SpecConfig == InitConfig /\ [][NextConfig]_vars

(* ------------------- the loaders on any file content -------------------- *)

\* a file: missing, text that is no JSON, JSON that is no object, or an
\* object with the member the loader asks for (JAbsent: no such member)
Doc(exists, parses, obj, member) ==
    [exists |-> exists, parses |-> parses, obj |-> obj, member |-> member]
DocMissing == Doc(FALSE, FALSE, FALSE, JAbsent)
DocGarbage == Doc(TRUE, FALSE, FALSE, JAbsent)
DocArray == Doc(TRUE, TRUE, FALSE, JAbsent)
DocObject(member) == Doc(TRUE, TRUE, TRUE, member)

\* a JSON array and a JSON object as member values
JList == [t |-> "list", v |-> <<>>]
JDict == [t |-> "dict", v |-> <<>>]

\* the outcome of a loader: an exception, the absent/default result, or a value
LoadRaised == [raised |-> TRUE, some |-> FALSE, v |-> <<>>]
LoadAbsent == [raised |-> FALSE, some |-> FALSE, v |-> <<>>]
LoadValue(v) == [raised |-> FALSE, some |-> TRUE, v |-> v]

\* _read_json_file: None for a missing file, RuntimeError for any other
\* failure of read_text or json.loads
read_json_file(doc) ==
    IF ~doc.exists THEN [raised |-> FALSE, data |-> "none"]
    ELSE IF ~doc.parses THEN [raised |-> TRUE, data |-> "none"]
    ELSE [raised |-> FALSE, data |-> IF doc.obj THEN "dict" ELSE "other"]

\* load_token on a file content
load_token_of(doc) ==
    LET r == read_json_file(doc)
    IN  IF r.raised THEN LoadRaised
        ELSE IF r.data # "dict" THEN LoadAbsent
        ELSE IF doc.member.t = "str" /\ Strip(doc.member.v) # <<>>
        THEN LoadValue(Strip(doc.member.v))
        ELSE LoadAbsent

\* load_links_cache on a file content; the member is "hosts"
load_links_cache_of(doc) ==
    LET r == read_json_file(doc)
    IN  IF r.raised THEN LoadRaised
        ELSE IF r.data # "dict" THEN LoadAbsent
        ELSE IF doc.member.t # "list" THEN LoadAbsent
        ELSE LoadValue(doc.member.v)

\* load_meta on a file content; the member is the value stored under a key,
\* kept when it is an object
load_meta_of(doc) ==
    LET r == read_json_file(doc)
    IN  IF r.raised THEN LoadRaised
        ELSE IF r.data # "dict" THEN LoadAbsent
        ELSE IF doc.member.t # "dict" THEN LoadAbsent
        ELSE LoadValue(doc.member.v)

\* load_runtime_config on a file content: _read_json_file is called outside
\* the try; a bad value falls back to the default
load_runtime_config_of(doc) ==
    LET r == read_json_file(doc)
    IN  IF r.raised THEN LoadRaised
        ELSE IF r.data = "dict" /\ doc.member.t = "str" /\ url_valid(doc.member.v)
        THEN LoadValue(validate_base_url(doc.member.v))
        ELSE [LoadAbsent EXCEPT !.v = DEFAULT_BASE_URL]

\* contents of a store file
DocsOf(members) ==
    {DocMissing, DocGarbage, DocArray} \cup {DocObject(m) : m \in members}

TokenDocs == DocsOf({JAbsent, JNull, JStr(<<SP>>), JStr(S_t_padded)})
CacheDocs == DocsOf({JAbsent, JStr(S_a), JList})
MetaDocs == DocsOf({JAbsent, JStr(S_a), JDict})
ConfigDocs == DocsOf({JAbsent, JNull, JStr(S_ftp_a), JStr(S_url_a \o <<SLASH>>)})

NoLoads == [token |-> LoadAbsent, cache |-> LoadAbsent, meta |-> LoadAbsent,
            config |-> LoadAbsent]

\* the four store files with any content, nothing loaded yet
InitLoad ==
    /\ InitStores
    /\ pure \in {[docs |-> [token |-> t, cache |-> c, meta |-> m, config |-> g],
                  done |-> FALSE, loads |-> NoLoads] :
                 t \in TokenDocs, c \in CacheDocs, m \in MetaDocs, g \in ConfigDocs}

\* every loader runs on its file
ApplyLoad ==
    /\ ~pure.done
    /\ pure' = [pure EXCEPT
           !.done = TRUE,
           !.loads = [token |-> load_token_of(pure.docs.token),
                      cache |-> load_links_cache_of(pure.docs.cache),
                      meta |-> load_meta_of(pure.docs.meta),
                      config |-> load_runtime_config_of(pure.docs.config)]]
    /\ UNCHANGED <<stores, now, last, ADMIN_USER, ADMIN_PASS>>

NextLoad == ApplyLoad

SpecLoad == InitLoad /\ [][NextLoad]_vars

(* ------------- the metadata routes over an older snapshot --------------- *)

\* the snapshot an earlier get_links left when host 1 had another domain name
OlderSnapshot ==
    [exists |-> TRUE, fetched_at |-> 0,
     hosts |-> <<Host(IdInt(1), DnList(<<S_b>>))>>]

InitPatchCached ==
    /\ ADMIN_USER = "admin"
    /\ ADMIN_PASS = "pw"
    /\ tokenFile = save_token(S_t)
    /\ metaFile = NoMeta
    /\ linksCacheFile = OlderSnapshot
    /\ configFile = NoConfig
    /\ runtime_base_url = DEFAULT_BASE_URL
    /\ now = 0
    /\ last = NoCall
    /\ pure = NoView

SpecPatchCached == InitPatchCached /\ [][NextFields]_vars

(* -------------------- _atomic_write_json, step by step ------------------ *)

\* Two saves of one store run at once (patch_config is a sync route and runs
\* in the thread pool; several server processes share the data directory).
\* A file name points to an inode; an open descriptor keeps its inode and
\* its own offset.  A document is written in two chunks.  A crash is a
\* writer that takes no further step.
Writers == {"A", "B"}

\* the document on disk before the saves, and the one each writer saves
PreviousDoc == <<9, 9>>
DocOf(w) == IF w = "A" THEN <<1, 1>> ELSE <<2, 2>>

\* write(2) of one byte at an offset; a gap reads as 0
WriteAt(content, off, byte) ==
    [i \in 1..(IF Len(content) > off THEN Len(content) ELSE off + 1) |->
        IF i = off + 1 THEN byte
        ELSE IF i <= Len(content) THEN content[i] ELSE 0]

IdleWriter == [pc |-> "open", fd |-> 0, off |-> 0]

\* inode 1 is the store file; no temporary file yet (tmp = 0)
InitSave ==
    /\ InitStores
    /\ pure = [inodes |-> <<PreviousDoc>>, path |-> 1, tmp |-> 0,
               writers |-> [w \in Writers |-> IdleWriter]]

\* os.open(tmp, O_WRONLY | O_CREAT | O_TRUNC): the existing temporary file
\* is truncated, or a new one is created
SaveOpen(w) ==
    /\ pure.writers[w].pc = "open"
    /\ pure' =
         IF pure.tmp # 0
         THEN [pure EXCEPT !.inodes[pure.tmp] = <<>>,
                           !.writers[w] = [pc |-> "write", fd |-> pure.tmp,
                                           off |-> 0]]
         ELSE [pure EXCEPT !.inodes = Append(pure.inodes, <<>>),
                           !.tmp = Len(pure.inodes) + 1,
                           !.writers[w] = [pc |-> "write",
                                           fd |-> Len(pure.inodes) + 1,
                                           off |-> 0]]
    /\ UNCHANGED <<stores, now, last, ADMIN_USER, ADMIN_PASS>>

\* f.write(data), one chunk at the descriptor's offset; the file is closed
\* after the last chunk
SaveWrite(w) ==
    LET wr == pure.writers[w]
        doc == DocOf(w)
    IN  /\ wr.pc = "write"
        /\ pure' = [pure EXCEPT
               !.inodes[wr.fd] = WriteAt(pure.inodes[wr.fd], wr.off, doc[wr.off + 1]),
               !.writers[w] = [wr EXCEPT !.off = wr.off + 1,
                                         !.pc = IF wr.off + 1 = Len(doc)
                                                THEN "replace" ELSE "write"]]
        /\ UNCHANGED <<stores, now, last, ADMIN_USER, ADMIN_PASS>>

\* tmp.replace(path): FileNotFoundError when the temporary name is gone
\* (the chmod calls before and after swallow their errors)
SaveReplace(w) ==
    /\ pure.writers[w].pc = "replace"
    /\ pure' =
         IF pure.tmp = 0
         THEN [pure EXCEPT !.writers[w].pc = "failed"]
         ELSE [pure EXCEPT !.path = pure.tmp, !.tmp = 0,
                           !.writers[w].pc = "done"]
    /\ UNCHANGED <<stores, now, last, ADMIN_USER, ADMIN_PASS>>

\* the next request saves again
SaveAgain(w) ==
    /\ pure.writers[w].pc \in {"done", "failed"}
    /\ pure' = [pure EXCEPT !.writers[w] = IdleWriter]
    /\ Len(pure.inodes) < MaxInodes
    /\ UNCHANGED <<stores, now, last, ADMIN_USER, ADMIN_PASS>>

NextSave ==
    \E w \in Writers : SaveOpen(w) \/ SaveWrite(w) \/ SaveReplace(w) \/ SaveAgain(w)

SpecSave == InitSave /\ [][NextSave]_vars

(* --------------------- get_links calls run concurrently ----------------- *)

\* get_links is a coroutine: it gives up the event loop at its two awaits
\* (validate_token, line 474, and npm_request, line 477) and nowhere else, so
\* what follows an await runs to the next await or to the return in one step.
RaceCalls == {"p", "q", "r"}

\* answers to the listing request: a list, or a transport error
RaceListings == {NetError} \cup {Resp(200, Body("list", l)) : l \in HostLists}

IdleCall == [pc |-> "start", fetch |-> NoResp, status |-> 0,
             source |-> "none", links |-> <<>>]

\* a token is stored, no snapshot yet, no call under way; order lists the
\* calls that wrote the cache, oldest first
InitRace ==
    /\ ADMIN_USER = "admin"
    /\ ADMIN_PASS = "pw"
    /\ tokenFile = save_token(S_t)
    /\ metaFile = NoMeta
    /\ linksCacheFile = NoCache
    /\ configFile = NoConfig
    /\ runtime_base_url = DEFAULT_BASE_URL
    /\ now = 0
    /\ last = NoCall
    /\ pure = [calls |-> [c \in RaceCalls |-> IdleCall], order |-> <<>>]

\* lines 497-522 on the fallback path
race_fallback(c) ==
    LET cached == load_links_cache
    IN  IF ~cached.some
        THEN [pure EXCEPT !.calls[c].pc = "done", !.calls[c].status = 401]
        ELSE [pure EXCEPT !.calls[c].pc = "done", !.calls[c].status = 200,
                          !.calls[c].source = "cache",
                          !.calls[c].links = build_view(cached.hosts, load_meta, FALSE)]

\* the call loads the token and sends the validation probe
RaceStart(c) ==
    /\ pure.calls[c].pc = "start"
    /\ load_token.some
    /\ pure' = [pure EXCEPT !.calls[c].pc = "probing"]
    /\ UNCHANGED <<stores, now, last, ADMIN_USER, ADMIN_PASS>>

\* the probe is answered: the listing request is sent, or the call falls
\* back to the snapshot and returns
RaceProbed(c) ==
    /\ pure.calls[c].pc = "probing"
    /\ \E probe \in {Resp(200, Body("list", <<>>)), Resp(401, Body("text", <<>>))} :
           pure' = IF validate_token(probe)
                   THEN [pure EXCEPT !.calls[c].pc = "fetching"]
                   ELSE race_fallback(c)
    /\ UNCHANGED <<stores, now, last, ADMIN_USER, ADMIN_PASS>>

\* the listing request is answered: lines 480-522 run to the return
RaceFetched(c) ==
    /\ pure.calls[c].pc = "fetching"
    /\ \E fetch \in RaceListings :
           LET live == fetch.net = "ok" /\ ~is_error(fetch) /\ fetch.body.k = "list"
               hosts == dicts(fetch.body.l)
           IN  /\ linksCacheFile' = cache_after_fetch(live, hosts)
               /\ pure' =
                    IF live
                    THEN [pure EXCEPT
                              !.calls[c] = [pc |-> "done", fetch |-> fetch,
                                            status |-> 200, source |-> "live",
                                            links |-> build_view(hosts, load_meta, FALSE)],
                              !.order = Append(pure.order, c)]
                    ELSE [race_fallback(c) EXCEPT !.calls[c].fetch = fetch]
    /\ UNCHANGED <<tokenFile, metaFile, configFile, runtime_base_url, now, last,
                   ADMIN_USER, ADMIN_PASS>>

NextRace == \E c \in RaceCalls : RaceStart(c) \/ RaceProbed(c) \/ RaceFetched(c)

SpecRace == InitRace /\ [][NextRace]_vars

(* ---------------- the backend without cache (src/server.py) -------------- *)

\* the answer of the simpler backend's GET /links on the stored token and
\* metadata: get_valid_token_or_401, the listing request, merge, filter and
\* sort.  merge_hosts_with_meta walks the fetched list as it is (h.get on a
\* non-object raises inside its try and the element is skipped).  The sort
\* key (not enabled, first domain name) is taken with every host enabled.
simple_get_links(include_hidden, probe, fetch) ==
    LET token == load_token
        merged == merge_hosts_with_meta(fetch.body.l, load_meta)
        fail(status, kind) == [status |-> status, kind |-> kind, links |-> <<>>]
    IN  IF ~token.some THEN fail(401, "NoToken")
        ELSE IF ~validate_token(probe) THEN fail(401, "TokenInvalid")
        ELSE IF fetch.net = "error" THEN fail(500, "InternalError")
        ELSE IF fetch.status = 401 THEN fail(401, "TokenInvalid")
        ELSE IF is_error(fetch) THEN fail(502, "BadGateway")
        ELSE IF fetch.body.k = "text" THEN fail(500, "InternalError")
        ELSE IF fetch.body.k # "list" THEN fail(502, "BadGateway")
        ELSE [status |-> 200, kind |-> "ok",
              links |-> sort_links(IF include_hidden THEN merged
                                   ELSE not_hidden(merged))]

NoSimple == [op |-> "none", include_hidden |-> FALSE, creds |-> NoCreds,
             status |-> 0, kind |-> "none", links |-> <<>>]

\* a request to the simpler backend; it has no parameter for credentials,
\* creds is what the caller would send along
SimpleGetLinks ==
    \E include_hidden \in BOOLEAN, creds \in {NoCreds, Basic("admin", "pw")} :
        \E probe \in (IF load_token.some THEN ProbeResponses ELSE {NoResp}) :
            \E fetch \in (IF probe # NoResp /\ validate_token(probe)
                          THEN ListingResponses ELSE {NoResp}) :
                LET out == simple_get_links(include_hidden, probe, fetch)
                IN  /\ pure' = [op |-> "simple_get_links",
                                include_hidden |-> include_hidden,
                                creds |-> creds, status |-> out.status,
                                kind |-> out.kind, links |-> out.links]
                    /\ UNCHANGED <<stores, now, last, ADMIN_USER, ADMIN_PASS>>

\* a request without include_hidden to the caching backend
GetLinksPublic ==
    \E probe \in ProbeResponses \cup {NoResp} :
        \E fetch \in (IF probe # NoResp /\ validate_token(probe)
                      THEN ListingResponses ELSE {NoResp}) :
            get_links(FALSE, NoCreds, probe, fetch)

\* metadata stores: none, link 1 hidden, link 1 named
VariantMetas ==
    {NoMeta, save_meta(1 :> Hidden(JTrue)),
     save_meta(1 :> [EmptyEntry EXCEPT !.name = JStr(S_X)])}

\* both backends over the same token and metadata files
InitVariants ==
    /\ ADMIN_USER = "admin"
    /\ ADMIN_PASS = "pw"
    /\ tokenFile \in {NoToken, save_token(S_t)}
    /\ metaFile \in VariantMetas
    /\ linksCacheFile = NoCache
    /\ configFile = NoConfig
    /\ runtime_base_url = DEFAULT_BASE_URL
    /\ now = 0
    /\ last = NoCall
    /\ pure = NoSimple

NextVariants == GetLinksPublic \/ SimpleGetLinks

SpecVariants == InitVariants /\ [][NextVariants]_vars

(* ------------------- every route over two listed links ----------------- *)

FrameIds == {1, 2}

\* the upstream lists links 1 and 2
FrameListing == <<Host(IdInt(1), DnList(<<S_a>>)), Host(IdInt(2), DnList(<<S_b>>))>>

\* the admin's PATCH of a listed link
PatchFramed ==
    \E link_id \in FrameIds, patch \in PatchChoices :
        patch_link_meta(link_id, patch, Basic(ADMIN_USER, ADMIN_PASS),
                        Resp(200, Body("list", <<>>)),
                        Resp(200, Body("list", FrameListing)))

\* the admin's DELETE
ResetFramed ==
    \E link_id \in FrameIds :
        delete_link_meta(link_id, Basic(ADMIN_USER, ADMIN_PASS))

\* GET /links by the admin, the listing answered or the upstream unreachable
GetLinksFramed ==
    \E include_hidden \in BOOLEAN :
        \E fetch \in {Resp(200, Body("list", FrameListing)), NetError} :
            get_links(include_hidden, Basic(ADMIN_USER, ADMIN_PASS),
                      Resp(200, Body("list", <<>>)), fetch)

NextFrame ==
    \/ PatchFramed
    \/ ResetFramed
    \/ GetLinksFramed
    \/ RenewToken
    \/ GetConfig
    \/ PatchConfig

SpecFrame == InitPatch /\ [][NextFrame]_vars

(* ------------- concurrent PATCH and DELETE on one event loop ------------ *)

\* three requests under way at once, each on a link of its own
MetaCalls == {"p", "q", "r"}
MetaIdOf == [c \in MetaCalls |-> IF c = "p" THEN 1 ELSE IF c = "q" THEN 2 ELSE 3]

\* the upstream lists the three links, lists none, or is unreachable
MetaListing ==
    <<Host(IdInt(1), DnList(<<S_a>>)), Host(IdInt(2), DnList(<<S_b>>)),
      Host(IdInt(3), DnList(<<S_B>>))>>
MetaListings ==
    {NetError, Resp(200, Body("list", <<>>)), Resp(200, Body("list", MetaListing))}

\* the metadata file before the requests: none, or an entry for every link
MetaBefore ==
    {NoMeta,
     save_meta([k \in {1, 2, 3} |-> [EmptyEntry EXCEPT !.emoji = JStr(S_a)]])}

IdleMetaCall == [pc |-> "start", op |-> "none", patch |-> EmptyEntry, status |-> 0]

\* before holds the entries as they were when the requests were sent
InitMeta ==
    /\ ADMIN_USER = "admin"
    /\ ADMIN_PASS = "pw"
    /\ tokenFile = save_token(S_t)
    /\ metaFile \in MetaBefore
    /\ linksCacheFile = NoCache
    /\ configFile = NoConfig
    /\ runtime_base_url = DEFAULT_BASE_URL
    /\ now = 0
    /\ last = NoCall
    /\ pure = [calls |-> [c \in MetaCalls |-> IdleMetaCall], before |-> load_meta]

\* variant: the patch works on the entries read before the requests' awaits
patch_meta_before_awaits(c) == pure.before

\* meta = load_meta() of patch_link_meta: it runs after the last await
patch_meta(c) == load_meta

\* DELETE /links/{id}: the handler has no await and runs to its return
MetaReset(c) ==
    /\ pure.calls[c].pc = "start"
    /\ metaFile' = save_meta(meta_pop(load_meta, MetaIdOf[c]))
    /\ pure' = [pure EXCEPT !.calls[c] = [pc |-> "done", op |-> "reset",
                                           patch |-> EmptyEntry, status |-> 204]]
    /\ UNCHANGED <<tokenFile, linksCacheFile, configFile, runtime_base_url, now,
                   last, ADMIN_USER, ADMIN_PASS>>

\* PATCH /links/{id}: the token is loaded and the validation probe sent
MetaPatchStart(c) ==
    /\ pure.calls[c].pc = "start"
    /\ load_token.some
    /\ \E patch \in PatchChoices :
           pure' = [pure EXCEPT !.calls[c] = [pc |-> "probing", op |-> "patch",
                                               patch |-> patch, status |-> 0]]
    /\ UNCHANGED <<stores, now, last, ADMIN_USER, ADMIN_PASS>>

\* the probe is answered: 401 to the caller, or the listing request is sent
MetaPatchProbed(c) ==
    /\ pure.calls[c].pc = "probing"
    /\ \E probe \in {Resp(200, Body("list", <<>>)), Resp(401, Body("text", <<>>))} :
           pure' = IF validate_token(probe)
                   THEN [pure EXCEPT !.calls[c].pc = "fetching"]
                   ELSE [pure EXCEPT !.calls[c].pc = "done", !.calls[c].status = 401]
    /\ UNCHANGED <<stores, now, last, ADMIN_USER, ADMIN_PASS>>

\* the listing request is answered: lines 537-562 run to the return
MetaPatchFetched(c) ==
    /\ pure.calls[c].pc = "fetching"
    /\ \E fetch \in MetaListings :
           LET link_id == MetaIdOf[c]
               found == IF fetch.net = "ok" /\ fetch.body.k = "list"
                        THEN any_id(fetch.body.l, link_id) ELSE "no"
               meta == patch_meta(c)
               saved == meta_put(meta, link_id,
                                 apply_patch(meta_get(meta, link_id),
                                             pure.calls[c].patch))
               done(status) == [pure EXCEPT !.calls[c].pc = "done",
                                            !.calls[c].status = status]
           IN  IF fetch.net = "error" \/ is_error(fetch)
               THEN pure' = done(500) /\ UNCHANGED metaFile
               ELSE IF found = "no"
               THEN pure' = done(404) /\ UNCHANGED metaFile
               ELSE /\ metaFile' = save_meta(saved)
                    /\ pure' = done(200)
    /\ UNCHANGED <<tokenFile, linksCacheFile, configFile, runtime_base_url, now,
                   last, ADMIN_USER, ADMIN_PASS>>

NextMeta ==
    \E c \in MetaCalls :
        MetaReset(c) \/ MetaPatchStart(c) \/ MetaPatchProbed(c) \/ MetaPatchFetched(c)

SpecMeta == InitMeta /\ [][NextMeta]_vars

(* ---------------- PATCH /config in two worker threads ------------------ *)

\* patch_config is a plain def: the framework runs it in a worker thread, and
\* two requests interleave between statements.  Each statement that reads or
\* writes the global _runtime_base_url is one step.
ConfigThreads == {"A", "B"}

\* request bodies: "http://a/", "https://b", "ftp://a"
ThreadUrls == {S_url_a \o <<SLASH>>, S_url_b, S_ftp_a}

IdleThread == [pc |-> "start", url_in |-> <<>>, doc |-> <<>>, status |-> 0,
               url |-> <<>>]

InitThreads ==
    /\ InitStores
    /\ pure = [threads |-> [t \in ConfigThreads |-> IdleThread]]

\* line 586: the global is assigned, or ValueError becomes the 422
ThreadAssign(t) ==
    /\ pure.threads[t].pc = "start"
    /\ \E url \in ThreadUrls :
           IF url_valid(url)
           THEN /\ runtime_base_url' = validate_base_url(url)
                /\ pure' = [pure EXCEPT !.threads[t].pc = "build",
                                        !.threads[t].url_in = url]
           ELSE /\ pure' = [pure EXCEPT !.threads[t].pc = "done",
                                        !.threads[t].url_in = url,
                                        !.threads[t].status = 422]
                /\ UNCHANGED runtime_base_url
    /\ UNCHANGED <<tokenFile, metaFile, linksCacheFile, configFile, now, last,
                   ADMIN_USER, ADMIN_PASS>>

\* line 162: the argument {"npm_base_url": _runtime_base_url} is evaluated
ThreadBuild(t) ==
    /\ pure.threads[t].pc = "build"
    /\ pure' = [pure EXCEPT !.threads[t].pc = "write",
                            !.threads[t].doc = runtime_base_url]
    /\ UNCHANGED <<stores, now, last, ADMIN_USER, ADMIN_PASS>>

\* _atomic_write_json puts the document in place
ThreadWrite(t) ==
    /\ pure.threads[t].pc = "write"
    /\ configFile' = save_runtime_config(pure.threads[t].doc)
    /\ pure' = [pure EXCEPT !.threads[t].pc = "respond"]
    /\ UNCHANGED <<tokenFile, metaFile, linksCacheFile, runtime_base_url, now,
                   last, ADMIN_USER, ADMIN_PASS>>

\* line 591: ConfigOut(npm_base_url=_runtime_base_url)
ThreadRespond(t) ==
    /\ pure.threads[t].pc = "respond"
    /\ pure' = [pure EXCEPT !.threads[t].pc = "done",
                            !.threads[t].status = 200,
                            !.threads[t].url = runtime_base_url]
    /\ UNCHANGED <<stores, now, last, ADMIN_USER, ADMIN_PASS>>

NextThreads ==
    \E t \in ConfigThreads :
        ThreadAssign(t) \/ ThreadBuild(t) \/ ThreadWrite(t) \/ ThreadRespond(t)

SpecThreads == InitThreads /\ [][NextThreads]_vars

(* ------------------- the standalone page (src/proxy.py) ----------------- *)

\* The page server keeps a token file and a cache file of its own; pure
\* holds them with the last request served:
\*   token  the stored token, <<>> when load_token returns None
\*   cache  [exists, updated_at, hosts]
\*   call   the request, the listing answer it got and the page it sent

NoProxyCache == [exists |-> FALSE, updated_at |-> 0, hosts |-> <<>>]

\* load_cache: hosts is [] and updated_at 0.0 when there is no usable file
proxy_load_cache ==
    IF pure.cache.exists THEN pure.cache ELSE NoProxyCache

\* save_cache: the fetched list as it is, stamped with time.time()
proxy_save_cache(hosts) == [exists |-> TRUE, updated_at |-> now, hosts |-> hosts]

\* the note of render_index
render_note(needs_login) ==
    IF needs_login THEN "Showing cached links." ELSE "Token valid. Links are current."

NoProxyCall ==
    [op |-> "none", fetch |-> NoResp, status |-> 0, needs_login |-> FALSE,
     hosts |-> <<>>, note |-> "", status_msg |-> "", cache_updated_at |-> 0]

\* handle_index with its listing answer r (NoResp when no token is stored).
\* caught tells whether r.json() failing on a body that is not JSON raises a
\* requests.RequestException (newer releases of requests) or a plain
\* ValueError, which the handler does not catch: then no page is sent.
handle_index(r, caught) ==
    LET cache == proxy_load_cache
        call == [NoProxyCall EXCEPT !.op = "handle_index", !.fetch = r]
        page(hosts, needs_login, cache_updated_at, status_msg) ==
            [call EXCEPT !.status = 200, !.needs_login = needs_login,
                         !.hosts = hosts, !.note = render_note(needs_login),
                         !.status_msg = status_msg,
                         !.cache_updated_at = cache_updated_at]
        cached(needs_login, status_msg) ==
            page(cache.hosts, needs_login, cache.updated_at, status_msg)
    IN
    /\ (r # NoResp) = (pure.token # <<>>)
    /\ IF pure.token = <<>>
       THEN pure' = [pure EXCEPT !.call = cached(TRUE, "No token saved")]
       ELSE IF r.net = "error"
       THEN pure' = [pure EXCEPT !.call = cached(TRUE, "API unreachable")]
       ELSE IF r.status = 401
       THEN pure' = [pure EXCEPT !.call = cached(TRUE, "Token expired/invalid")]
       ELSE IF r.status # 200
       THEN pure' = [pure EXCEPT !.call = cached(TRUE, "API error")]
       ELSE IF r.body.k = "text"
       THEN pure' = [pure EXCEPT !.call =
                        IF caught THEN cached(TRUE, "API unreachable")
                        ELSE [call EXCEPT !.status = 0]]
       ELSE IF r.body.k = "list"
       THEN pure' = [pure EXCEPT !.cache = proxy_save_cache(r.body.l),
                                 !.call = page(r.body.l, FALSE, now, "")]
       ELSE pure' = [pure EXCEPT !.call =
                        cached(FALSE, "API returned unexpected payload")]
    /\ UNCHANGED <<stores, now, last, ADMIN_USER, ADMIN_PASS>>

\* answers of GET /api/nginx/proxy-hosts to the page server
ProxyListings ==
    {NetError, Resp(401, Body("text", <<>>)), Resp(500, Body("text", <<>>)),
     Resp(200, Body("json", <<>>)), Resp(200, Body("text", <<>>))}
    \cup {Resp(200, Body("list", l)) : l \in HostLists}

HandleIndex ==
    \E r \in ProxyListings \cup {NoResp}, caught \in BOOLEAN :
        handle_index(r, caught)

\* handle_renew with credentials the upstream accepts: the token is saved,
\* then the cache is refreshed where the listing answers 200 with a list
HandleRenew ==
    /\ \E r \in ProxyListings :
           pure' = [pure EXCEPT
                       !.token = S_t,
                       !.cache = IF r.net = "ok" /\ r.status = 200
                                     /\ r.body.k = "list"
                                  THEN proxy_save_cache(r.body.l)
                                  ELSE pure.cache,
                       !.call = [NoProxyCall EXCEPT !.op = "handle_renew",
                                                    !.fetch = r,
                                                    !.status = 303]]
    /\ UNCHANGED <<stores, now, last, ADMIN_USER, ADMIN_PASS>>

InitProxy ==
    /\ InitStores
    /\ pure = [token |-> <<>>, cache |-> NoProxyCache, call |-> NoProxyCall]

NextProxy == HandleIndex \/ HandleRenew \/ Tick

SpecProxy == InitProxy /\ [][NextProxy]_vars

(* ------------------------------- claims -------------------------------- *)

\* a handler ran in this step (the clock stands still)
IsCall == now' = now

\* the request is not one for hidden links by a caller who is not the admin
PassesAdminCheck(c) ==
    \/ ~c.include_hidden
    \/ /\ ADMIN_USER # "" /\ ADMIN_PASS # ""
       /\ c.creds = Basic(ADMIN_USER, ADMIN_PASS)

ProbeValid(r) == r.net = "ok" /\ r.status # 401
ProbeInvalid(r) == r.net = "error" \/ (r.net = "ok" /\ r.status = 401)
ListingSucceeded(r) == r.net = "ok" /\ r.status < 400 /\ r.body.k = "list"
ListingFailed(r) ==
    \/ r.net = "error"
    \/ r.net = "ok" /\ (r.status >= 400 \/ r.body.k # "list")

\* the JSON objects of a list, in order
ObjectsOf(l) == SelectSeq(l, LAMBDA e : e.dict)

\* every link carries the id and the domain names of some host of the list
LinksFrom(links, hosts) ==
    \A i \in DOMAIN links :
        \E j \in DOMAIN hosts :
            /\ hosts[j].dict /\ hosts[j].id.k \in {"int", "str"}
            /\ hosts[j].id.n = links[i].id
            /\ links[i].domain_names =
                   IF hosts[j].domain_names.k = "list"
                   THEN hosts[j].domain_names.l ELSE <<>>

C2_FallbackServesCache ==
    [][(IsCall /\ last'.op = "get_links" /\ PassesAdminCheck(last')
            /\ (~tokenFile.exists \/ ProbeInvalid(last'.probe))
            /\ linksCacheFile.exists)
        => /\ last'.status = 200 /\ last'.source = "cache"
           /\ last'.fetched_at = linksCacheFile.fetched_at
           /\ LinksFrom(last'.links, linksCacheFile.hosts)
           /\ linksCacheFile' = linksCacheFile]_vars

\* a stored token fails validation and an older snapshot is served
C2_Witness ==
    /\ last.op = "get_links" /\ last.source = "cache"
    /\ tokenFile.exists /\ last.probe.status = 401
    /\ last.links # <<>>
    /\ last.fetched_at = linksCacheFile.fetched_at /\ last.fetched_at < now

\* C3: with no usable token and no snapshot, get_links fails with
\* NoDataAvailable and returns no links.
C3_NoDataAvailable ==
    (/\ last.op = "get_links" /\ PassesAdminCheck(last)
     /\ (~tokenFile.exists \/ ProbeInvalid(last.probe))
     /\ ~linksCacheFile.exists)
    => /\ last.status = 401 /\ last.kind = "NoDataAvailable"
       /\ last.links = <<>> /\ last.source = "none"

\* a stored token is rejected by the probe and nothing is cached
C3_Witness ==
    /\ last.op = "get_links" /\ last.kind = "NoDataAvailable"
    /\ tokenFile.exists /\ last.probe.status = 401
    /\ ~linksCacheFile.exists

\* C4 as claimed: once the token has validated, every failure of the listing
\* request is answered from the snapshot, where one exists, with source
\* "cache".
C4_FetchFailureServesCache ==
    (/\ last.op = "get_links" /\ PassesAdminCheck(last)
     /\ ProbeValid(last.probe) /\ ListingFailed(last.fetch)
     /\ linksCacheFile.exists)
    => last.status = 200 /\ last.source = "cache"

\* C5: the cache file changes only in a get_links call whose listing request
\* succeeded.
C5_CacheWrittenOnlyByLiveFetch ==
    [][linksCacheFile' # linksCacheFile
        => /\ last'.op = "get_links" /\ last'.source = "live"
           /\ ProbeValid(last'.probe) /\ ListingSucceeded(last'.fetch)]_vars

\* a snapshot is stored while a patch commits and while a fallback is served
C5_Witness ==
    /\ linksCacheFile.exists /\ linksCacheFile.hosts # <<>>
    /\ \/ last.op = "patch_link_meta" /\ last.status = 200
       \/ last.op = "get_links" /\ last.source = "cache"
               /\ ListingFailed(last.fetch)

\* C6: get_links with include_hidden from a caller who is not the admin fails
\* before the token is loaded, a request is issued or a store is read: with
\* NotConfigured where no admin is configured, else with Forbidden.
C6_HiddenNeedsAdmin ==
    (last.op = "get_links" /\ ~PassesAdminCheck(last))
    => /\ last.nreq = 0 /\ last.reads = {}
       /\ last.probe = NoResp /\ last.fetch = NoResp
       /\ last.links = <<>> /\ last.source = "none"
       /\ IF ADMIN_USER = "" \/ ADMIN_PASS = ""
          THEN last.status = 503 /\ last.kind = "NotConfigured"
          ELSE last.status = 401 /\ last.kind = "Forbidden"

\* hidden links are asked for with wrong credentials while a token and a
\* snapshot are stored
C6_Witness ==
    /\ last.op = "get_links" /\ last.include_hidden
    /\ last.kind = "Forbidden" /\ last.creds.given
    /\ tokenFile.exists /\ linksCacheFile.exists

\* C7: with no admin configured, every admin-gated request fails whatever
\* the credentials, and changes no store.
C7_UnconfiguredAdminFailsClosed ==
    [][(/\ IsCall
        /\ ADMIN_USER = "" \/ ADMIN_PASS = ""
        /\ \/ last'.op \in {"patch_link_meta", "delete_link_meta",
                            "get_config", "patch_config"}
           \/ last'.op = "get_links" /\ last'.include_hidden)
        => /\ last'.status >= 400
           /\ UNCHANGED stores]_vars

\* empty credentials meet an empty admin user and password
C7_Witness ==
    /\ ADMIN_USER = "" /\ ADMIN_PASS = ""
    /\ last.op = "delete_link_meta" /\ last.creds = Basic("", "")
    /\ last.status = 503
    /\ tokenFile.exists /\ linksCacheFile.exists

\* lexicographic order on code points
LexLeq(s, t) ==
    \E k \in 0..Len(s) :
        /\ k <= Len(t)
        /\ \A i \in 1..k : s[i] = t[i]
        /\ k = Len(s) \/ (k < Len(t) /\ s[k + 1] < t[k + 1])

FirstDomain(x) == IF Len(x.domain_names) = 0 THEN <<>> ELSE x.domain_names[1]

\* the positions of the list holding an object whose id is an integer
IntIdHosts(hs) ==
    {j \in DOMAIN hs : hs[j].dict /\ hs[j].id.k \in {"int", "str"}}

\* the stored hidden flag of an id: "absent" where there is no entry or no flag
StoredHidden(meta, id) ==
    IF id \in DOMAIN meta THEN meta[id].hidden ELSE JAbsent

\* C8: without include_hidden no returned link is hidden and every host with
\* an integer id whose metadata is missing or not hidden is returned; with
\* include_hidden every host with an integer id is returned.
C8_HiddenFilter ==
    pure.done =>
        LET hs == pure.hosts
            returned(j) == \E i \in DOMAIN pure.out : pure.out[i].id = hs[j].id.n
        IN  IF pure.include_hidden
            THEN \A j \in IntIdHosts(hs) : returned(j)
            ELSE /\ \A i \in DOMAIN pure.out :
                        /\ ~pure.out[i].hidden
                        /\ StoredHidden(pure.meta, pure.out[i].id) # JTrue
                 /\ \A j \in IntIdHosts(hs) :
                        StoredHidden(pure.meta, hs[j].id.n) \in {JAbsent, JFalse}
                            => returned(j)

\* a hidden host is left out, one marked not hidden and one without metadata
\* are returned
C8_Witness ==
    /\ pure.done /\ ~pure.include_hidden
    /\ \E j \in IntIdHosts(pure.hosts) :
           StoredHidden(pure.meta, pure.hosts[j].id.n) = JTrue
    /\ \E i \in DOMAIN pure.out : StoredHidden(pure.meta, pure.out[i].id) = JFalse
    /\ \E i \in DOMAIN pure.out : pure.out[i].id \notin DOMAIN pure.meta

\* C9: the returned links are in ascending order of their first domain name,
\* compared as raw strings, a link without domain names counting as "".
C9_SortedByFirstDomain ==
    pure.done =>
        \A i \in 1..(Len(pure.out) - 1) :
            LexLeq(FirstDomain(pure.out[i]), FirstDomain(pure.out[i + 1]))

\* three links given out of order: one without domain names, one in upper
\* case, one in lower case
C9_Witness ==
    /\ pure.done /\ Len(pure.out) = 3
    /\ pure.out[1].domain_names = <<>>
    /\ FirstDomain(pure.out[2]) = S_B
    /\ FirstDomain(pure.out[3]) = S_a
    /\ pure.hosts[1].id = IdInt(3)

\* C10 as claimed: two orders of the same host records give the same
\* sequence of links.
C10_OrderIndependent == pure.done => pure.out = pure.out2

\* C11: a host whose id is missing, null or no number gives no link, in a
\* view built from a fetched list as in one built from a snapshot: every link
\* comes from a host with an integer id, and with include_hidden the view has
\* one link for each host with an integer id, whatever else the list holds.
C11_BadIdsSkipped ==
    pure.done =>
        /\ LinksFrom(pure.out, pure.hosts)
        /\ pure.include_hidden =>
               Len(pure.out) = Cardinality(IntIdHosts(pure.hosts))

\* a list holding a host without an id, a host whose id is no number and,
\* after them, a host with an integer id, which is the one link of the view
C11_Witness ==
    /\ pure.done /\ Len(pure.hosts) = 3
    /\ pure.hosts[1].dict /\ pure.hosts[1].id = IdAbsent
    /\ pure.hosts[2].dict /\ pure.hosts[2].id = IdBad
    /\ pure.hosts[3].id = IdInt(1)
    /\ Len(pure.out) = 1 /\ pure.out[1].id = 1

\* C12: every link of a returned view carries the integer id of a host of
\* the list the view was built from, the fetched list when the source is
\* "live" and the stored snapshot when it is "cache"; a stored entry whose id
\* no host of that list has gives no link.
C12_LinksComeFromUsedList ==
    (last.op = "get_links" /\ last.status = 200) =>
        LinksFrom(last.links,
                  IF last.source = "live" THEN last.fetch.body.l
                  ELSE linksCacheFile.hosts)

\* an entry is stored for id 1 and the view is served from a snapshot that
\* holds no host with that id: the view has no link
C12_Witness ==
    /\ last.op = "get_links" /\ last.status = 200 /\ last.source = "cache"
    /\ last.include_hidden
    /\ 1 \in DOMAIN metaFile.entries
    /\ \A j \in DOMAIN linksCacheFile.hosts : linksCacheFile.hosts[j].id # IdInt(1)
    /\ last.links = <<>>

\* the list holds an object whose id converts to the integer n
ListsId(l, n) ==
    \E j \in DOMAIN l : l[j].dict /\ l[j].id.k \in {"int", "str"} /\ l[j].id.n = n

\* C13 as claimed: a patch_link_meta call that got a listing writes the
\* metadata file only when the listing holds a host whose integer id is
\* link_id, and answers NotFound otherwise; so every key the call adds is the
\* id of a host of that listing.
C13_CommitsOnlyListedIds ==
    [][(IsCall /\ last'.op = "patch_link_meta" /\ ListingSucceeded(last'.fetch))
        => IF ListsId(last'.fetch.body.l, last'.link_id)
           THEN TRUE
           ELSE /\ last'.kind = "NotFound"
                /\ metaFile' = metaFile]_vars

\* C14 as claimed: a patch_link_meta call that ends in any error response
\* leaves the metadata file as it was before the call.
C14_FailedPatchWritesNothing ==
    [][(IsCall /\ last'.op = "patch_link_meta" /\ last'.status # 200)
        => metaFile' = metaFile]_vars

\* a string of spaces, the empty string included
IsBlank(v) == v.t = "str" /\ \A i \in DOMAIN v.v : v.v[i] = SP

\* the stored entry of an id, an entry with no member where none is stored
StoredEntry(file, id) ==
    IF id \in DOMAIN file.entries THEN file.entries[id] ELSE EmptyEntry

\* C15: in a patch_link_meta call that answers 200, a member the body leaves
\* out keeps its stored value; a name, description or emoji given as an empty
\* or blank string is stored as unset and the returned link carries null for
\* it; hidden given as a boolean replaces the stored flag.
C15_FieldSemantics ==
    [][(IsCall /\ last'.op = "patch_link_meta" /\ last'.status = 200)
        => LET p == last'.patch
               old == StoredEntry(metaFile, last'.link_id)
               new == StoredEntry(metaFile', last'.link_id)
               link == last'.links[1]
           IN  /\ last'.link_id \in DOMAIN metaFile'.entries
               /\ \A f \in {"name", "description", "emoji"} :
                      /\ p[f] = JAbsent => new[f] = old[f]
                      /\ IsBlank(p[f]) => new[f] = JNull /\ link[f] = JNull
               /\ p.hidden = JAbsent => new.hidden = old.hidden
               /\ p.hidden \in {JTrue, JFalse} =>
                      /\ new.hidden = p.hidden
                      /\ link.hidden = (p.hidden = JTrue)]_vars

\* a body with a blank name, hidden set to false and no description, over an
\* entry that had a description: the name is unset, the description is kept,
\* the flag is the one given
C15_Witness ==
    /\ last.op = "patch_link_meta" /\ last.status = 200
    /\ last.patch.name = JStr(S_blank) /\ last.patch.description = JAbsent
    /\ last.patch.hidden = JFalse
    /\ metaFile.entries[1].name = JNull
    /\ metaFile.entries[1].description = JStr(S_X)
    /\ metaFile.entries[1].hidden = JFalse
    /\ last.links[1].name = JNull /\ ~last.links[1].hidden

\* a patch_link_meta call that set the name "X" has answered 200 and the
\* next call is get_links with include_hidden by the admin
PatchThenView ==
    /\ IsCall
    /\ last.op = "patch_link_meta" /\ last.status = 200
    /\ last.patch.name = JStr(S_X)
    /\ last'.op = "get_links" /\ last'.include_hidden
    /\ last'.creds = Basic(ADMIN_USER, ADMIN_PASS)

\* C16 as claimed: after a successful patch of the name of a listed id, the
\* admin's next get_links with include_hidden returns a link with that id
\* and that name.
C16_RoundTrip ==
    [][PatchThenView
        => \E i \in DOMAIN last'.links :
               /\ last'.links[i].id = last.link_id
               /\ last'.links[i].name = JStr(S_X)]_vars

\* C16 amended: the link is returned with that name whenever the get_links
\* call answers with a view and the list the view is built from, the fetched
\* list or the stored snapshot, holds a host with that id.
C16_RoundTripOverUsedList ==
    [][(PatchThenView /\ last'.status = 200
            /\ ListsId(IF last'.source = "live" THEN last'.fetch.body.l
                       ELSE linksCacheFile'.hosts, last.link_id))
        => \E i \in DOMAIN last'.links :
               /\ last'.links[i].id = last.link_id
               /\ last'.links[i].name = JStr(S_X)]_vars

\* the admin's view served from a snapshot that holds host 1, with the name
\* stored by an earlier patch
C16_Witness ==
    /\ last.op = "get_links" /\ last.status = 200 /\ last.include_hidden
    /\ last.creds = Basic(ADMIN_USER, ADMIN_PASS)
    /\ last.source = "cache"
    /\ 1 \in DOMAIN metaFile.entries /\ metaFile.entries[1].name = JStr(S_X)
    /\ \E i \in DOMAIN last.links :
           last.links[i].id = 1 /\ last.links[i].name = JStr(S_X)

\* C17: a delete_link_meta call by the admin answers 204 without reading the
\* token or sending a request, and leaves no entry for the id; where no entry
\* was stored the entries stay as they were, and a second call for the same
\* id leaves the metadata file as the first one left it.
C17_ResetIdempotent ==
    [][(IsCall /\ last'.op = "delete_link_meta" /\ admin_configured
            /\ last'.creds = Basic(ADMIN_USER, ADMIN_PASS))
        => /\ last'.status = 204
           /\ last'.nreq = 0 /\ "token" \notin last'.reads
           /\ UNCHANGED <<tokenFile, linksCacheFile>>
           /\ last'.link_id \notin DOMAIN metaFile'.entries
           /\ last'.link_id \notin DOMAIN metaFile.entries
                  => metaFile'.entries = metaFile.entries
           /\ (last.op = "delete_link_meta" /\ last.status = 204
                   /\ last.link_id = last'.link_id)
                  => metaFile' = metaFile]_vars

\* a reset answered 204 with no token stored and no entry left for the id
C17_Witness ==
    /\ last.op = "delete_link_meta" /\ last.status = 204
    /\ ~tokenFile.exists
    /\ metaFile.exists /\ last.link_id \notin DOMAIN metaFile.entries

\* C18 as claimed: a patch_link_meta call by the admin whose validation or
\* listing request meets a transport error, or whose listing answer is a
\* 4xx/5xx other than 401 or a body that is no JSON array, ends in a gateway
\* error (502 or 504), not in TokenInvalid or NotFound; and no
\* patch_link_meta call reads the cache file.
C18_PatchUpstreamFailureIsGateway ==
    last.op = "patch_link_meta" =>
        /\ "cache" \notin last.reads
        /\ (\/ last.probe.net = "error"
            \/ /\ ProbeValid(last.probe) /\ ListingFailed(last.fetch)
               /\ ~(last.fetch.net = "ok" /\ last.fetch.status = 401))
               => /\ last.status \in {502, 504}
                  /\ last.kind \notin {"TokenInvalid", "NotFound"}

\* C19 as claimed: a get_links call that passes the admin check either
\* returns a view or fails with NoDataAvailable, and it fails only when it
\* obtained no live list and no snapshot is stored.
C19_OnlyNoDataAvailable ==
    (last.op = "get_links" /\ PassesAdminCheck(last)) =>
        /\ last.status = 200 \/ last.kind = "NoDataAvailable"
        /\ last.status # 200 =>
               /\ ~linksCacheFile.exists
               /\ ~(ProbeValid(last.probe) /\ ListingSucceeded(last.fetch))

\* C20: the token file changes only in a renew_token call whose upstream
\* answer is 200 with a token that is a non-blank string, and then holds a
\* non-empty token; get_links, patch_link_meta, delete_link_meta, the config
\* routes and every other renew_token call leave it as it was, also when the
\* stored token fails validation.
C20_TokenWrittenOnlyByRenew ==
    [][tokenFile' # tokenFile
        => /\ last'.op = "renew_token" /\ last'.status = 200
           /\ last'.fetch.net = "ok" /\ last'.fetch.status = 200
           /\ last'.fetch.body.k = "obj"
           /\ last'.fetch.body.token.t = "str"
           /\ ~IsBlank(last'.fetch.body.token)
           /\ tokenFile'.exists /\ tokenFile'.token # <<>>]_vars

\* a token saved by a renewal is still stored after a get_links call in
\* which it failed validation
C20_Witness ==
    /\ tokenFile = [exists |-> TRUE, token |-> S_t]
    /\ last.op = "get_links" /\ last.probe.net = "ok" /\ last.probe.status = 401

\* C21 as claimed: a renew_token call ends, whatever upstream did, with the
\* token or with a classified error: AuthFailure when upstream answered with
\* a status other than 200, a gateway error when the request met a transport
\* error or the 200 answer carried no token; no exception escapes.
C21_RenewOutcomeClassified ==
    last.op = "renew_token" =>
        /\ last.kind \in {"ok", "AuthFailure", "BadGateway"}
        /\ last.fetch.net = "error" => last.kind = "BadGateway"
        /\ (last.fetch.net = "ok" /\ last.fetch.status # 200)
               => last.kind = "AuthFailure"

\* non-empty after trimming and starting with http:// or https://
WellFormedUrl(u) ==
    /\ Strip(u) # <<>>
    /\ StartsWith(Strip(u), S_http) \/ StartsWith(Strip(u), S_https)

\* C22: a patch_config call by the admin changes the base URL in memory and
\* the config file only when the value given is non-empty after trimming and
\* starts with http:// or https://, and then both hold the value returned;
\* a call that rejects its value fails and leaves both as they were.
C22_ConfigUpdateValidated ==
    [][(IsCall /\ last'.op = "patch_config"
            /\ last'.creds = Basic(ADMIN_USER, ADMIN_PASS))
        => IF last'.status = 200
           THEN /\ WellFormedUrl(last'.url_in)
                /\ runtime_base_url' = last'.url
                /\ configFile' = [exists |-> TRUE, npm_base_url |-> last'.url]
           ELSE /\ last'.status = 422
                /\ UNCHANGED <<runtime_base_url, configFile>>]_vars

\* a value with another scheme is rejected after an earlier update was
\* stored, and the stored value is still in force
C22_Witness ==
    /\ last.op = "patch_config" /\ last.status = 422
    /\ last.url_in = S_ftp_a
    /\ runtime_base_url = S_url_b
    /\ configFile = [exists |-> TRUE, npm_base_url |-> S_url_b]

\* C23 as claimed: when a patch_config call has returned the base URL u and
\* the process then starts again, the base URL loaded from the config file
\* is u.
C23_ConfigSurvivesRestart ==
    [][(last.op = "patch_config" /\ last.status = 200
            /\ last'.op = "load_runtime_config")
        => runtime_base_url' = last.url]_vars

\* the call went through the admin gate: an admin route, or get_links
\* asked for hidden links
AdminGated(c) ==
    \/ c.op \in {"patch_link_meta", "delete_link_meta", "get_config",
                 "patch_config"}
    \/ c.op = "get_links" /\ c.include_hidden

\* C24 as claimed: a call through the admin gate is answered NotConfigured
\* whenever ADMIN_USER or ADMIN_PASS is not set, and with a credentials
\* error when both are set and the credentials are missing or wrong; the
\* stores and upstream play no part.
C24_AdminErrorKinds ==
    AdminGated(last) =>
        /\ ~admin_configured => last.kind = "NotConfigured"
        /\ (admin_configured /\ last.creds # Basic(ADMIN_USER, ADMIN_PASS))
               => last.kind \in {"BadCredentials", "NotAuthenticated", "Forbidden"}

\* C25 as claimed: validate_token returns false on a 401 answer and true on
\* every other outcome of the probe, a transport error included.  get_links
\* and patch_link_meta send the listing request exactly when it returned
\* true, so a call that probed made two requests unless the probe was
\* answered 401.
C25_ValidatorFalseOnlyOn401 ==
    (last.op \in {"get_links", "patch_link_meta"} /\ last.probe # NoResp)
        => ((last.nreq = 2)
                <=> ~(last.probe.net = "ok" /\ last.probe.status = 401))

\* the content is not one a save of the store leaves: the file is missing,
\* is no JSON, is no object, or lacks a member of the right type
Unusable(doc, t) == ~doc.exists \/ ~doc.parses \/ ~doc.obj \/ doc.member.t # t

\* C26 as claimed: no loader raises, and each returns its absent or default
\* result when the file is missing and when its content is no JSON or JSON
\* of the wrong shape.
C26_LoadsTolerateBadContent ==
    pure.done =>
        /\ \A st \in {"token", "cache", "meta", "config"} : ~pure.loads[st].raised
        /\ Unusable(pure.docs.token, "str") => pure.loads.token = LoadAbsent
        /\ Unusable(pure.docs.cache, "list") => pure.loads.cache = LoadAbsent
        /\ Unusable(pure.docs.meta, "dict") => pure.loads.meta = LoadAbsent
        /\ Unusable(pure.docs.config, "str")
               => pure.loads.config = [LoadAbsent EXCEPT !.v = DEFAULT_BASE_URL]

\* C27 as claimed: whatever the interleaving of two saves of one store and
\* wherever a writer stops, the store file holds the complete previous
\* document or the complete document of one save, and no save fails.
C27_SavesAtomic ==
    /\ pure.inodes[pure.path] \in {PreviousDoc} \cup {DocOf(w) : w \in Writers}
    /\ \A w \in Writers : pure.writers[w].pc # "failed"

\* every call has returned and more than one of them fetched a list
RaceOver ==
    /\ \A c \in RaceCalls : pure.calls[c].pc = "done"
    /\ Len(pure.order) >= 2

\* the call whose cache write came last
LastWriter == pure.order[Len(pure.order)]

\* each call that fetched a list answered "live" with one link for each
\* host with an integer id of its own list (no metadata is stored)
OwnViews ==
    \A c \in RaceCalls :
        pure.calls[c].fetch \in RaceListings \ {NetError} =>
            /\ pure.calls[c].status = 200 /\ pure.calls[c].source = "live"
            /\ LinksFrom(pure.calls[c].links, pure.calls[c].fetch.body.l)
            /\ Len(pure.calls[c].links) =
                   Cardinality(IntIdHosts(pure.calls[c].fetch.body.l))

Sent(c) ==
    (IF c.probe # NoResp THEN 1 ELSE 0) + (IF c.fetch # NoResp THEN 1 ELSE 0)

C30_PatchReturnsFreshMerge ==
    (last.op = "patch_link_meta" /\ last.status = 200) =>
        /\ Len(last.links) = 1
        /\ last.links[1].id = last.link_id
        /\ LinksFrom(last.links, last.fetch.body.l)
        /\ last.link_id \in DOMAIN metaFile.entries
        /\ LET e == metaFile.entries[last.link_id]
               link == last.links[1]
           IN  /\ \A f \in {"name", "description", "emoji"} :
                      link[f] = IF e[f] = JAbsent THEN JNull ELSE e[f]
               /\ link.hidden = (e.hidden = JTrue)
        /\ "cache" \notin last.reads

\* the snapshot holds host 1 under another domain name; the link returned
\* has the fetched one, the name just stored and the flag stored earlier
C30_Witness ==
    /\ last.op = "patch_link_meta" /\ last.status = 200
    /\ linksCacheFile.hosts[1].domain_names = DnList(<<S_b>>)
    /\ last.links[1].domain_names = <<S_a>>
    /\ last.patch.name = JStr(S_X) /\ last.patch.hidden = JAbsent
    /\ last.links[1].name = JStr(S_X) /\ last.links[1].hidden

\* the ids of a list of links
IdsOf(links) == {links[i].id : i \in DOMAIN links}

\* C31 as claimed: whenever the simpler backend answers a request without
\* include_hidden with a list, the caching backend, given the same token,
\* metadata and upstream answers, answers "live" with the same set of ids;
\* and the simpler backend returns no hidden link to a caller whom the
\* caching backend would refuse hidden links.
C31_CachingSubsumesSimple ==
    /\ (last.op = "get_links" /\ ~last.include_hidden) =>
           LET simple == simple_get_links(FALSE, last.probe, last.fetch)
           IN  simple.status = 200 =>
                   /\ last.status = 200 /\ last.source = "live"
                   /\ IdsOf(last.links) = IdsOf(simple.links)
    /\ (pure.op = "simple_get_links" /\ pure.status = 200
            /\ \E i \in DOMAIN pure.links : pure.links[i].hidden)
           => is_admin(pure.creds)

\* C32: no operation deletes the cache file or takes the snapshot out of
\* it: a getView answering "live" leaves a snapshot, a snapshot once stored
\* stays readable over every step, and a getView that starts with a snapshot
\* stored never answers NoDataAvailable, whatever the token and the upstream
\* do.
C32_CacheNeverLost ==
    [][/\ (last'.op = "get_links" /\ last' # last /\ last'.source = "live")
              => load_links_cache'.some
       /\ load_links_cache.some => load_links_cache'.some
       /\ (load_links_cache.some /\ last'.op = "get_links" /\ last' # last)
              => last'.kind # "NoDataAvailable"]_vars

\* a getView whose token the upstream refused is answered from the snapshot
C32_Witness ==
    /\ last.op = "get_links" /\ last.status = 200 /\ last.source = "cache"
    /\ last.probe # NoResp /\ ProbeInvalid(last.probe)
    /\ load_links_cache.some

\* C34: a patch, reset, config read or config update whose credentials are
\* not the configured admin's is answered by the admin check alone: no
\* upstream request is sent and the metadata, config, token and cache stores
\* (and the runtime base URL) stay as they were.
C34_AdminCheckFirst ==
    [][(/\ last'.op \in {"patch_link_meta", "delete_link_meta", "get_config",
                         "patch_config"}
        /\ last' # last
        /\ ~is_admin(last'.creds))
           => /\ last'.status \in {401, 503}
              /\ last'.nreq = 0
              /\ last'.probe = NoResp /\ last'.fetch = NoResp
              /\ stores' = stores]_vars

\* a patch with a wrong password, sent while a token is stored and the
\* admin is configured, is refused
C34_Witness ==
    /\ last.op = "patch_link_meta" /\ last.status = 401
    /\ last.creds.given /\ last.creds.username = ADMIN_USER
    /\ last.creds.password # ADMIN_PASS
    /\ admin_configured /\ load_token.some

\* C35: getView, renew, config read and config update leave the metadata
\* file as it is; a patch or reset of link id that succeeds leaves every
\* entry under another key present and unchanged, and adds no other key.
C35_MetadataFrame ==
    [][/\ (last'.op \in {"get_links", "renew_token", "get_config", "patch_config"}
              /\ last' # last)
           => metaFile' = metaFile
       /\ (/\ last'.op \in {"patch_link_meta", "delete_link_meta"}
           /\ last' # last
           /\ last'.status \in {200, 204})
           => \A k \in (DOMAIN load_meta \cup DOMAIN load_meta') \ {last'.link_id} :
                  /\ k \in DOMAIN load_meta /\ k \in DOMAIN load_meta'
                  /\ load_meta'[k] = load_meta[k]]_vars

\* link 1 was patched while link 2 has an entry of its own
C35_Witness ==
    /\ last.op = "patch_link_meta" /\ last.status = 200 /\ last.link_id = 1
    /\ 1 \in DOMAIN load_meta /\ 2 \in DOMAIN load_meta
    /\ load_meta[2] # load_meta[1]

\* every request has returned
MetaOver == \A c \in MetaCalls : pure.calls[c].pc = "done"

\* C33: once concurrent patches and resets on distinct links, interleaved
\* at the upstream awaits, have all returned, the metadata file shows every
\* one that succeeded: a patched link holds its earlier entry with the
\* patch applied, a reset link has no entry, and a link whose request
\* failed holds what it held before.
C33_NoLostUpdate ==
    MetaOver =>
        \A c \in MetaCalls :
            LET id == MetaIdOf[c]
                call == pure.calls[c]
            IN  IF call.op = "patch" /\ call.status = 200
                THEN /\ id \in DOMAIN load_meta
                     /\ load_meta[id] = apply_patch(meta_get(pure.before, id), call.patch)
                ELSE IF call.op = "reset"
                THEN id \notin DOMAIN load_meta
                ELSE /\ (id \in DOMAIN load_meta) = (id \in DOMAIN pure.before)
                     /\ id \in DOMAIN load_meta => load_meta[id] = pure.before[id]

\* two patches and a reset overlapped and all succeeded, on a file that
\* held entries before
C33_Witness ==
    /\ MetaOver
    /\ pure.before # EmptyMeta
    /\ pure.calls["p"].op = "patch" /\ pure.calls["p"].status = 200
    /\ pure.calls["q"].op = "reset"
    /\ pure.calls["r"].op = "patch" /\ pure.calls["r"].status = 200

\* C36 as claimed: once concurrent config updates have all returned and at
\* least one succeeded, the stored npm_base_url is the runtime base URL, and
\* the response of each successful update carries the validated form of the
\* URL that update sent.
C36_ConfigUpdatesConsistent ==
    ((\A t \in ConfigThreads : pure.threads[t].pc = "done")
        /\ (\E t \in ConfigThreads : pure.threads[t].status = 200))
    => /\ configFile.exists /\ configFile.npm_base_url = runtime_base_url
       /\ \A t \in ConfigThreads :
              pure.threads[t].status = 200
                  => pure.threads[t].url = validate_base_url(pure.threads[t].url_in)

\* the listing answered 200 with a JSON list
Is200List(r) == r.net = "ok" /\ r.status = 200 /\ r.body.k = "list"

\* the page shows the list fetched in this request
ShowsFetched(c) == Is200List(c.fetch) /\ c.hosts = c.fetch.body.l

\* C37 as claimed: a page sent by handle_index is marked current
\* (needs_login false, "Token valid. Links are current.") exactly when the
\* hosts it shows are the list fetched in that request; a page showing the
\* cached list has needs_login true; and the cache file changes only in a
\* request whose listing was answered 200 with a JSON list.
C37_CurrentIffLive ==
    [][/\ (pure'.call.op = "handle_index" /\ pure'.call.status = 200)
              => /\ (~pure'.call.needs_login) = ShowsFetched(pure'.call)
                 /\ (pure'.call.note = "Token valid. Links are current.")
                        = ShowsFetched(pure'.call)
                 /\ ~ShowsFetched(pure'.call) => pure'.call.needs_login
       /\ pure'.cache # pure.cache => Is200List(pure'.call.fetch)]_vars

====
